---------------------------- MODULE Spec2Model ----------------------------
(***************************************************************************)
(* Highland Cow Farm: the day progression orchestrator                     *)
(* (game/progression.ts) together with the parts of core/state.ts and      *)
(* core/util.ts it drives.                                                 *)
(*                                                                         *)
(* Numbers that are fractions in the source (speedScale, beatWindow,       *)
(* tempoModifier) are held in hundredths; every other number is held as    *)
(* written in the source.                                                  *)
(***************************************************************************)
EXTENDS Integers, Sequences, FiniteSets, TLC

(***************************************************************************)
(* Bounds of the model                                                     *)
(***************************************************************************)
\* days a behaviour may start (guards StartDay)
MaxDays == 2
\* resets of the save a behaviour may perform (guards Reset)
MaxResets == 1
\* startDay calls made while a day is running, per day
MaxCalls == 1

\* calls of randomiseAccessories in a behaviour of the style room
MaxRandomise == 2

\* frames a run of a mini-game lasts at most, runs of a mini-game in a
\* behaviour, chips dragged at once, and mistakes counted
MiniTime == 3
MaxRuns == 2
MaxDrags == 2
MiniMisses == 2

(***************************************************************************)
(* core/util.ts: the shared seeded generator                               *)
(***************************************************************************)
RngModulus == 2147483647
RngMultiplier == 48271

\* seededRandom's state update, seed * 48271 % 2147483647, computed by
\* Schrage's decomposition so that no intermediate exceeds 32 bits.
NextSeed(s) ==
  LET q == RngModulus \div RngMultiplier
      r == RngModulus % RngMultiplier
      t == RngMultiplier * (s % q) - r * (s \div q)
  IN  IF t > 0 THEN t ELSE t + RngModulus

\* the element of a singleton set
Only(S) == CHOOSE v \in S : TRUE

RECURSIVE Advance(_, _)
\* the seed after k calls of seededRandom: the first half of the calls, then
\* the rest from the seed they leave
Advance(s, k) ==
  IF k <= 0 THEN s
  ELSE IF k = 1 THEN NextSeed(s)
  ELSE Only({Advance(t, k - k \div 2) : t \in {Advance(s, k \div 2)}})

\* Math.floor(seededRandom() * n) for the value seededRandom returns when it
\* leaves the seed at s: floor(s * n / 2147483647), without the product.
RandIndex(s, n) ==
  LET q == RngModulus \div n
      r == RngModulus % n
  IN  Cardinality({j \in 1..(n - 1) : s >= j * q + ((j * r + n - 1) \div n)})

\* setSeed
SetSeed(x) == IF x % RngModulus = 0 THEN 1 ELSE x % RngModulus

\* pick: undefined (no draw) on an empty array
PickDraws(arr) == IF Len(arr) = 0 THEN 0 ELSE 1
PickIndex(arr, s) == RandIndex(NextSeed(s), Len(arr)) + 1

\* an exchange that forgets to write position j
Overwrite(arr, i, j) == [k \in 1..Len(arr) |-> IF k = i THEN arr[j] ELSE arr[k]]

\* [clone[i], clone[j]] = [clone[j], clone[i]]
Swap(arr, i, j) ==
  [k \in 1..Len(arr) |-> IF k = i THEN arr[j] ELSE IF k = j THEN arr[i] ELSE arr[k]]

RECURSIVE ShuffleFrom(_, _, _)
\* the loop of shuffle with i (1-based) still to place; [val, seed]
ShuffleFrom(clone, i, s) ==
  IF i <= 1 THEN [val |-> clone, seed |-> s]
  ELSE LET s1 == NextSeed(s)
           j == RandIndex(s1, i) + 1
       IN  ShuffleFrom(Swap(clone, i, j), i - 1, s1)

Shuffle(arr, s) == ShuffleFrom(arr, Len(arr), s)

RemoveAt(arr, i) == [k \in 1..(Len(arr) - 1) |-> IF k < i THEN arr[k] ELSE arr[k + 1]]

RECURSIVE SampleLoop(_, _, _, _)
SampleLoop(pool, result, count, s) ==
  IF Len(pool) = 0 \/ Len(result) >= count THEN [val |-> result, seed |-> s]
  ELSE LET s1 == NextSeed(s)
           idx == RandIndex(s1, Len(pool)) + 1
       IN  SampleLoop(RemoveAt(pool, idx), Append(result, pool[idx]), count, s1)

Sample(arr, count, s) == SampleLoop(arr, <<>>, count, s)

\* a clamp that lets every value through
Unclamped(value, lo, hi) == value

Min(a, b) == IF a < b THEN a ELSE b
Max(a, b) == IF a > b THEN a ELSE b

Clamp(value, lo, hi) == Min(Max(value, lo), hi)

Range(f) == {f[i] : i \in DOMAIN f}

\* the numbers of a set in increasing order
Ascending(S) ==
  [k \in 1..Cardinality(S) |-> CHOOSE i \in S : Cardinality({j \in S : j < i}) = k - 1]

\* the elements of arr at the positions idx, in the order of arr
KeepAt(arr, idx) == [k \in 1..Cardinality(idx) |-> arr[Ascending(idx)[k]]]

\* Array.prototype.filter for a set of kept values
FilterSeq(arr, keep) == KeepAt(arr, {i \in DOMAIN arr : arr[i] \in keep})

(***************************************************************************)
(* Static tables                                                           *)
(***************************************************************************)
\* Object.keys(miniGames), in declaration order
MiniGameKeys == <<"catch", "food", "brush", "ceilidh">>
Kinds == Range(MiniGameKeys)

\* game/cows.ts PERSONALITIES
PERSONALITIES == <<"Greedy", "Vain", "Sleepy", "Social">>

EmptyBag == [k \in {} |-> 0]

\* a merge in which the keys of a win over those of b
KeepOwn(a, b) ==
  [k \in (DOMAIN a) \cup (DOMAIN b) |-> IF k \in DOMAIN a THEN a[k] ELSE b[k]]

\* Object.assign({}, a, b): the keys of b override those of a
Assign(a, b) ==
  [k \in (DOMAIN a) \cup (DOMAIN b) |-> IF k \in DOMAIN b THEN b[k] ELSE a[k]]

NoEvent ==
  [personality |-> "", label |-> "", modifiers |-> EmptyBag, achievementOnSuccess |-> ""]

\* PersonalityEngine.configs: configs[kind][personality]
ConfigModifiers(kind, personality) ==
  CASE kind = "catch" /\ personality = "Sleepy" -> [timeModifier |-> -4, speedScale |-> 85]
    [] kind = "catch" /\ personality = "Social" -> [timeModifier |-> 3, speedScale |-> 95]
    [] kind = "food" /\ personality = "Greedy" -> [timeModifier |-> -2]
    [] kind = "food" /\ personality = "Social" -> [timeModifier |-> 2]
    [] kind = "brush" /\ personality = "Vain" -> [timeModifier |-> 1, patchBonus |-> 2]
    [] kind = "brush" /\ personality = "Social" -> [timeModifier |-> 2]
    [] kind = "ceilidh" /\ personality = "Social" -> [beatWindow |-> 15, happinessBonus |-> 3]
    [] OTHER -> EmptyBag

ConfigLabel(kind, personality) ==
  CASE kind = "catch" /\ personality = "Sleepy" -> "Sleepy Shuffle"
    [] kind = "catch" /\ personality = "Social" -> "Buddy System"
    [] kind = "food" /\ personality = "Greedy" -> "Greedy Graze"
    [] kind = "food" /\ personality = "Social" -> "Shared Snacks"
    [] kind = "brush" /\ personality = "Vain" -> "Fringe Focus"
    [] kind = "brush" /\ personality = "Social" -> "Salon Day"
    [] kind = "ceilidh" /\ personality = "Social" -> "Community Ceilidh"
    [] OTHER -> ""

\* cloneEvent(key, configs[key][personality])
CloneConfig(kind, personality) ==
  [personality |-> personality,
   label |-> ConfigLabel(kind, personality),
   modifiers |-> ConfigModifiers(kind, personality),
   achievementOnSuccess |->
     IF kind = "catch" /\ personality = "Social" THEN "socialButterfly" ELSE ""]

\* cloneEvent of an event already planned (eventForMini)
cloneEvent(event) ==
  [personality |-> event.personality,
   label |-> event.label,
   modifiers |-> Assign(EmptyBag, event.modifiers),
   achievementOnSuccess |-> event.achievementOnSuccess]

NoReward == [type |-> "", item |-> "", reason |-> ""]

\* core/state.ts DEFAULT_SEASON_TEMPLATE.calendar
Calendar ==
  << [id |-> "spring-bunting-week", name |-> "Ribbon Rehearsal",
      startOffset |-> 0, festivalOffset |-> 6,
      modifiers |-> [brush |-> [patchBonus |-> 1], catch |-> [timeModifier |-> 1]],
      reward |-> [type |-> "decor", item |-> "Festival Bunting",
                  reason |-> "Ribbon Rehearsal decor milestone"]],
     [id |-> "spring-pantry-week", name |-> "Pasture Pantry Prep",
      startOffset |-> 7, festivalOffset |-> 13,
      modifiers |-> [food |-> [timeModifier |-> 2], ceilidh |-> [beatWindow |-> 12]],
      reward |-> NoReward],
     [id |-> "spring-ceilidh-week", name |-> "Bloomlight Ceilidh",
      startOffset |-> 14, festivalOffset |-> 20,
      modifiers |-> [ceilidh |-> [beatWindow |-> 18, tempoModifier |-> -5],
                     brush |-> [patchBonus |-> 1]],
      reward |-> NoReward] >>

FestivalIds == {Calendar[i].id : i \in DOMAIN Calendar}

\* data/foods.ts, data/accessories.ts, data/decor.ts: the library keys
DEFAULT_FOODS == <<"Starter Hay", "Carrot Crunch", "Warm Oat Mash">>
FoodLibrary ==
  {"Starter Hay", "Carrot Crunch", "Warm Oat Mash", "Sweet Clover Bale",
   "Heather Honey Jar", "Crisp Apple Crate", "Barley Biscuit Stack"}
AccessoryLibrary ==
  {"Pastel Bow", "Bell Charm", "Sun Hat", "Fern Garland", "Starry Bandana",
   "Woolly Scarf", "Thistle Crown"}
DecorLibrary ==
  {"Wildflower Patch", "Tartan Picnic Rug", "Fairy Lights Garland",
   "Stone Cairn Lantern", "Milk Churn Planter", "Festival Bunting",
   "Heather Hedge", "Pebble Pond"}
Library(type) ==
  CASE type = "foods" -> FoodLibrary
    [] type = "accessories" -> AccessoryLibrary
    [] type = "decor" -> DecorLibrary
    [] OTHER -> {}

\* data/achievements.ts: the keys of ACHIEVEMENTS
ACHIEVEMENTS ==
  {"perfectDay", "fashionista", "cozyDecorator", "socialButterfly", "chonkSentinel"}

(***************************************************************************)
(* State                                                                   *)
(***************************************************************************)
VARIABLES
  seed,          \* util.ts rngState.seed
  day,           \* state.ts data.day
  cows,          \* data.cows: sequence of cow records
  unlocks,       \* data.unlocks: [foods, accessories, decor], each a list
  stats,         \* data.stats
  achievements,  \* data.achievements: the keys whose flag is true
  season,        \* data.season: [startDay, completedFestivals]
  preparedPlan,  \* progression.ts preparedPlan: <<>> (null) or <<plan>>
  running,       \* progression.ts running
  pc,            \* where startDay is: "idle", "awaiting" (a mini-game is
                 \* active, the promise pending) or "resolved" (onComplete ran,
                 \* the continuation is queued as a microtask)
  run,           \* the locals of the startDay call in progress
  outcome,       \* the MiniGameResult the promise was resolved with
  lastResults,   \* progression.ts lastResults: <<>> or <<summary>>
  trace,         \* start/stop calls made on mini-games during the current day
  deltaLog,      \* every adjustments map merged during the current day, in order
  dayStart,      \* the save and the queue as the current day was started with them
  lastPreview,   \* what the latest getPreviewPlan call returned and drew
  daysRun,       \* days started in this behaviour
  resets,        \* resets performed in this behaviour
  family,        \* the family challenge ledger of the save
  mini,          \* the module state of the mini-game being played, and its loop
  storage,       \* the save in localStorage, and the writes of the day in progress
  turnedAway     \* startDay calls the day in progress has turned away

vars ==
  <<seed, day, cows, unlocks, stats, achievements, season, preparedPlan, running,
    pc, run, outcome, lastResults, trace, deltaLog, dayStart, lastPreview,
    daysRun, resets, family, mini, storage, turnedAway>>

(***************************************************************************)
(* core/state.ts: the season                                               *)
(***************************************************************************)
isFestivalComplete(ssn, id) ==
  id # "" /\ \E i \in DOMAIN ssn.completedFestivals : ssn.completedFestivals[i] = id

\* the comparator of the calendar sort in getSeasonContext
CalendarBefore(a, b) ==
  IF a.startOffset = b.startOffset
    THEN a.festivalOffset < b.festivalOffset
    ELSE a.startOffset < b.startOffset

\* calendar.slice().sort(...): a stable sort by (startOffset, festivalOffset)
SortCalendar(cal) ==
  [k \in DOMAIN cal |->
     cal[CHOOSE i \in DOMAIN cal :
           Cardinality({j \in DOMAIN cal :
                          \/ CalendarBefore(cal[j], cal[i])
                          \/ (~CalendarBefore(cal[i], cal[j]) /\ j < i)}) = k - 1]]

toProgressEntry(startDay, entry, d, completed) ==
  LET weekStartDay == startDay + entry.startOffset
      festivalDay == startDay + entry.festivalOffset
  IN  [id |-> entry.id,
       name |-> entry.name,
       modifiers |-> entry.modifiers,
       reward |-> entry.reward,
       weekStartDay |-> weekStartDay,
       festivalDay |-> festivalDay,
       daysUntilFestival |-> festivalDay - d,
       isFestivalWeek |-> d >= weekStartDay /\ d <= festivalDay,
       completed |-> entry.id \in completed]

\* the first element of a list that satisfies a test, as <<>> or <<x>>
FirstOf(list, ok(_)) ==
  LET hits == {i \in DOMAIN list : ok(list[i])}
  IN  IF hits = {} THEN <<>>
      ELSE <<list[CHOOSE i \in hits : \A j \in hits : i <= j]>>

getSeasonContext(ssn, d) ==
  LET currentDay == Max(1, d)
      completed == Range(ssn.completedFestivals)
      progress ==
        LET cal == SortCalendar(Calendar)
        IN  [i \in DOMAIN cal |-> toProgressEntry(ssn.startDay, cal[i], currentDay, completed)]
      IsNext(p) == p.daysUntilFestival >= 0
      IsActive(p) == p.isFestivalWeek
      nextFestival == FirstOf(progress, IsNext)
      inWeek == FirstOf(progress, IsActive)
      activeFestival ==
        IF inWeek = <<>> /\ nextFestival # <<>> /\ nextFestival[1].weekStartDay <= currentDay
          THEN nextFestival ELSE inWeek
  IN  [day |-> currentDay,
       dayOfSeason |-> Max(0, currentDay - ssn.startDay),
       activeFestival |-> activeFestival,
       nextFestival |-> nextFestival]

\* seasonal?.activeFestival || seasonal?.nextFestival
Highlight(seasonal) ==
  IF seasonal.activeFestival # <<>> THEN seasonal.activeFestival ELSE seasonal.nextFestival

(***************************************************************************)
(* progression.ts: PersonalityEngine.planDay                               *)
(***************************************************************************)
countPersonalities(herd) ==
  [p \in Range(PERSONALITIES) |-> Cardinality({i \in DOMAIN herd : herd[i].personality = p})]

\* a choice that prefers the Social rule to the thematic one
SocialFirst(kind, counts) ==
  IF counts["Social"] > 0 THEN "Social"
  ELSE IF kind = "catch" /\ counts["Sleepy"] > 0 THEN "Sleepy"
  ELSE IF kind = "food" /\ counts["Greedy"] > 0 THEN "Greedy"
  ELSE IF kind = "brush" /\ counts["Vain"] > 0 THEN "Vain"
  ELSE ""

\* the personality whose rule planDay chooses for a kind, "" for none
ChosenPersonality(kind, counts) ==
  LET thematic ==
        CASE kind = "catch" -> "Sleepy"
          [] kind = "food" -> "Greedy"
          [] kind = "brush" -> "Vain"
          [] OTHER -> "Social"
  IN  IF counts[thematic] > 0 THEN thematic
      ELSE IF counts["Social"] > 0 THEN "Social" ELSE ""

\* the events of the plan before the festival is looked at
BaseEvents(herd) ==
  LET counts == countPersonalities(herd)
  IN  [k \in Kinds |->
        IF ChosenPersonality(k, counts) = "" THEN NoEvent
        ELSE CloneConfig(k, ChosenPersonality(k, counts))]

\* the forEach over Object.keys(highlight.modifiers)
MergeFestival(events, highlight) ==
  IF highlight = <<>> THEN events
  ELSE [k \in Kinds |->
         IF k \in DOMAIN highlight[1].modifiers /\ events[k] # NoEvent
           THEN [events[k] EXCEPT !.modifiers = Assign(events[k].modifiers, highlight[1].modifiers[k])]
           ELSE events[k]]

planDay(herd, seasonal) ==
  [events |-> MergeFestival(BaseEvents(herd), Highlight(seasonal))]

\* a signature that also changes whenever the generator has been used
SeededSignature(d, herd) == <<d, herd, seed>>

\* planSignature: the day and the sorted id:personality pairs joined by '|';
\* the sorted join is held as the multiset of the pairs.
planSignature(d, herd) ==
  LET pairs == {<<herd[i].id, herd[i].personality>> : i \in DOMAIN herd}
  IN  [day |-> d,
       herd |-> [p \in pairs |->
                  Cardinality({i \in DOMAIN herd : <<herd[i].id, herd[i].personality>> = p})]]

\* buildPlan: [val |-> the plan, seed |-> the seed after the shuffle]
buildPlan(ssn, d, herd, s) ==
  LET shuffled == Shuffle(MiniGameKeys, s)
      seasonal == getSeasonContext(ssn, d)
  IN  [val |-> [queue |-> shuffled.val,
                eventPlan |-> planDay(herd, seasonal),
                season |-> seasonal,
                signature |-> planSignature(d, herd)],
       seed |-> shuffled.seed]

\* an ensurePlan that never reuses the prepared plan
RebuildPlan(prepared, ssn, d, herd, s) == buildPlan(ssn, d, herd, s)

\* ensurePlan: [val |-> the plan returned, seed |-> the seed afterwards]
ensurePlan(prepared, ssn, d, herd, s) ==
  IF prepared = <<>> \/ prepared[1].signature # planSignature(d, herd)
    THEN buildPlan(ssn, d, herd, s)
    ELSE [val |-> prepared[1], seed |-> s]

(***************************************************************************)
(* progression.ts: participants and the event in force                     *)
(***************************************************************************)
\* a selection that takes the first cows of the herd
FirstCows(herd, count, plannedEvent, s) ==
  [val |-> [k \in 1..Min(count, Len(herd)) |-> k], seed |-> s]

\* a selection that samples the herd without looking at the planned event
SampleCows(herd, count, plannedEvent, s) ==
  Sample(Ascending(DOMAIN herd), Min(count, Len(herd)), s)

\* pickParticipants(cows, count, plannedEvent): [val |-> the positions (in
\* data.cows) of the cows selected, in order, seed |-> the seed afterwards]
pickParticipants(herd, count, plannedEvent, s) ==
  IF Len(herd) = 0 THEN [val |-> <<>>, seed |-> s]
  ELSE
    LET desired == Min(count, Len(herd))
        matches ==
          IF plannedEvent.personality # ""
            THEN Ascending({i \in DOMAIN herd : herd[i].personality = plannedEvent.personality})
            ELSE <<>>
        selection == IF Len(matches) > 0 THEN <<matches[PickIndex(matches, s)]>> ELSE <<>>
        s1 == Advance(s, PickDraws(matches))
        remainingPool == Ascending((DOMAIN herd) \ Range(selection))
        extras == Sample(remainingPool, Max(0, desired - Len(selection)), s1)
    IN  [val |-> selection \o extras.val, seed |-> extras.seed]

\* PersonalityEngine.eventForMini: NoEvent stands for null
eventForMini(key, participants, eventPlan, herd) ==
  LET base == eventPlan.events[key]
  IN  IF base = NoEvent THEN NoEvent
      ELSE IF base.personality # ""
              /\ ~\E i \in DOMAIN participants : herd[participants[i]].personality = base.personality
           THEN NoEvent
           ELSE cloneEvent(base)

(***************************************************************************)
(* minigames: what start() draws and what finish() reports                 *)
(***************************************************************************)
\* data/foods.ts FoodLibrary: hunger, happiness, chonk, overfeedChonk, overfeedMood
FoodMeta(name) ==
  CASE name = "Starter Hay" ->
         [hunger |-> -24, happiness |-> 6, chonk |-> 0, overfeedChonk |-> 6, overfeedMood |-> 4]
    [] name = "Carrot Crunch" ->
         [hunger |-> -20, happiness |-> 7, chonk |-> 0, overfeedChonk |-> 5, overfeedMood |-> 4]
    [] name = "Warm Oat Mash" ->
         [hunger |-> -28, happiness |-> 7, chonk |-> 2, overfeedChonk |-> 9, overfeedMood |-> 5]
    [] name = "Sweet Clover Bale" ->
         [hunger |-> -26, happiness |-> 8, chonk |-> 1, overfeedChonk |-> 8, overfeedMood |-> 5]
    [] name = "Heather Honey Jar" ->
         [hunger |-> -18, happiness |-> 10, chonk |-> 2, overfeedChonk |-> 10, overfeedMood |-> 6]
    [] name = "Crisp Apple Crate" ->
         [hunger |-> -22, happiness |-> 8, chonk |-> 1, overfeedChonk |-> 7, overfeedMood |-> 5]
    [] OTHER ->
         [hunger |-> -24, happiness |-> 7, chonk |-> 3, overfeedChonk |-> 12, overfeedMood |-> 6]

\* sanitizeUnlockList: library items only, first occurrence only
Dedupe(list, library) ==
  KeepAt(list, {i \in DOMAIN list :
                  list[i] \in library /\ \A j \in 1..(i - 1) : list[j] # list[i]})

sanitizeUnlockList(list, library) == Dedupe(list, library)

\* getUnlocks
getUnlocks(type) ==
  IF type = "foods" THEN sanitizeUnlockList(DEFAULT_FOODS \o unlocks.foods, FoodLibrary)
  ELSE sanitizeUnlockList(unlocks[type], Library(type))

\* food.ts buildFoodPool
buildFoodPool(names) == Dedupe(names \o DEFAULT_FOODS, FoodLibrary)

Modifier(modifiers, key) == IF key \in DOMAIN modifiers THEN modifiers[key] ELSE 0

\* food.ts start: one pick(pool) per participant; [val |-> the foods, seed]
PickFoods(pool, n, s) ==
  [val |-> [k \in 1..n |-> pool[PickIndex(pool, Advance(s, k - 1))]],
   seed |-> Advance(s, n)]

\* catch.ts start: spawnCows draws four numbers for each of `count` cows
CatchDraws(difficulty) == 4 * Min(8, Max(3, (35 + 6 * difficulty) \div 10))

\* brush.ts start: spawnPatches draws three numbers for each patch
BrushDraws(difficulty, modifiers, focusChonk) ==
  LET basePatches == Min(8, Max(4, (9 + difficulty) \div 2))
      chonkBonus == IF focusChonk > 70 THEN 1 ELSE 0
  IN  3 * Min(12, basePatches + Modifier(modifiers, "patchBonus") + chonkBonus)

\* start(context) of the mini-game `key`: the state finish() will read, and the
\* seed after the draws of start. participants are positions in data.cows.
StartGame(key, participants, difficulty, modifiers, foods, herd, s) ==
  LET n == Len(participants)
      picked == PickFoods(buildFoodPool(foods), n, s)
      focusChonk == IF n > 0 THEN herd[participants[1]].chonk ELSE 42
      draws ==
        CASE key = "catch" -> CatchDraws(difficulty)
          [] key = "brush" -> BrushDraws(difficulty, modifiers, focusChonk)
          [] OTHER -> 0
  IN  [game |-> [key |-> key,
                 participants |-> participants,
                 modifiers |-> modifiers,
                 targets |-> IF key = "food" THEN picked.val ELSE <<>>],
       seed |->
         \* food: the picks of the targets, two more chips, and the shuffle of
         \* the n + 2 chips (n + 1 draws)
         IF key = "food" THEN Advance(picked.seed, 2 + n + 1) ELSE Advance(s, draws)]

StatKeys == <<"happiness", "hunger", "cleanliness", "chonk">>

\* (adj[key] || 0) + by
AddTo(adj, key, by) ==
  [k \in (DOMAIN adj) \cup {key} |->
     IF k = key THEN (IF key \in DOMAIN adj THEN adj[key] ELSE 0) + by ELSE adj[k]]

\* food.ts finish: the adjustment of one target
FoodAdjustment(food, success, satisfied, overfed) ==
  LET meta == FoodMeta(food)
      fed ==
        IF success /\ satisfied
          THEN LET a == [hunger |-> meta.hunger, happiness |-> meta.happiness]
               IN  IF meta.chonk # 0 THEN AddTo(a, "chonk", meta.chonk) ELSE a
        ELSE IF ~success THEN [hunger |-> 12, happiness |-> -6]
        ELSE EmptyBag
  IN  IF overfed
        THEN AddTo(AddTo(fed, "chonk", meta.overfeedChonk), "happiness", -meta.overfeedMood)
        ELSE fed

\* finish(success, ...) of the active mini-game: the MiniGameResult handed to
\* onComplete. play is what the player did: misses (ceilidh), how many of the
\* first targets were overfed and the wrong drops (food), whether more than
\* five seconds were left (brush).
FinishResult(game, herd, success, play) ==
  LET ids == {herd[game.participants[i]].id : i \in DOMAIN game.participants}
      Pos(id) == CHOOSE i \in DOMAIN game.participants : herd[game.participants[i]].id = id
      bonusHappiness == Modifier(game.modifiers, "happinessBonus")
  IN  CASE game.key = "catch" ->
           [success |-> success,
            adjustments |-> [id \in ids |->
               [happiness |-> IF success THEN 10 ELSE -8,
                hunger |-> IF success THEN -4 ELSE 6]],
            stats |-> [totalPerfects |-> IF success THEN 1 ELSE 0, totalChonks |-> 0]]
        [] game.key = "brush" ->
           [success |-> success,
            adjustments |-> [id \in ids |->
               [cleanliness |-> IF success THEN 30 ELSE -12,
                happiness |-> IF success THEN 6 ELSE -4]],
            stats |-> [totalPerfects |-> IF success /\ play.quick THEN 1 ELSE 0,
                       totalChonks |-> 0]]
        [] game.key = "food" ->
           [success |-> success,
            adjustments |-> [id \in ids |->
               \* finish(true) is only called once every target is satisfied
               FoodAdjustment(game.targets[Pos(id)], success, success,
                              Pos(id) <= play.overfed)],
            stats |-> [totalPerfects |->
                         IF success /\ play.mistakes = 0 /\ Min(play.overfed, Len(game.targets)) = 0
                           THEN 1 ELSE 0,
                       totalChonks |-> Min(play.overfed, Len(game.targets))]]
        [] OTHER ->
           [success |-> success,
            adjustments |-> [id \in ids |->
               [happiness |->
                  (IF success THEN 8 + bonusHappiness ELSE -4)
                    - (IF success THEN play.misses ELSE 0),
                hunger |->
                  IF success
                    THEN (IF play.misses > 0 THEN play.misses * 3 ELSE -4)
                    ELSE 6 + play.misses * 2]],
            stats |-> [totalPerfects |-> IF success /\ play.misses = 0 THEN 1 ELSE 0,
                       totalChonks |-> 0]]

(***************************************************************************)
(* progression.ts: event post-processors and the accumulator               *)
(***************************************************************************)
\* adds every delta of `adds` into the partial record adj: (adj[k] || 0) + adds[k]
AddAll(adj, adds) ==
  [k \in (DOMAIN adj) \cup (DOMAIN adds) |->
     (IF k \in DOMAIN adj THEN adj[k] ELSE 0) + (IF k \in DOMAIN adds THEN adds[k] ELSE 0)]

\* what configs[kind][personality].applyOutcome adds to each cow it touches
EventDeltas(kind, personality, result) ==
  CASE kind = "catch" /\ personality = "Sleepy" ->
         [happiness |-> IF result.success THEN 3 ELSE -4]
    [] kind = "catch" /\ personality = "Social" ->
         [happiness |-> IF result.success THEN 2 ELSE -2]
    [] kind = "food" /\ personality = "Greedy" ->
         IF result.success THEN [hunger |-> -6, happiness |-> 3]
         ELSE IF result.stats.totalChonks # 0 THEN [chonk |-> 4, happiness |-> -3]
         ELSE EmptyBag
    [] kind = "food" /\ personality = "Social" ->
         IF result.success /\ result.stats.totalChonks = 0 THEN [happiness |-> 3]
         ELSE IF ~result.success THEN [happiness |-> -2]
         ELSE EmptyBag
    [] kind = "brush" /\ personality = "Vain" ->
         IF result.success THEN [cleanliness |-> 6, happiness |-> 3] ELSE [happiness |-> -5]
    [] kind = "brush" /\ personality = "Social" ->
         IF result.success THEN [cleanliness |-> 3, happiness |-> 2] ELSE [happiness |-> -2]
    [] kind = "ceilidh" /\ personality = "Social" ->
         IF result.success THEN [happiness |-> 4] ELSE [happiness |-> -3, hunger |-> 4]
    [] OTHER -> EmptyBag

\* the cows (ids) an event's applyOutcome touches
EventTouches(kind, personality, result, participants, herd) ==
  LET all == {herd[participants[i]].id : i \in DOMAIN participants}
      matching ==
        {herd[participants[i]].id :
           i \in {j \in DOMAIN participants : herd[participants[j]].personality = personality}}
  IN  CASE kind = "catch" /\ personality = "Social" -> all
        [] kind = "brush" /\ personality = "Social" -> all
        [] kind = "food" /\ personality = "Social" ->
             IF (result.success /\ result.stats.totalChonks = 0) \/ ~result.success
               THEN all ELSE {}
        [] OTHER -> matching

\* PersonalityEngine.applyOutcome(event, outcome, participants): the outcome
\* with its adjustments mutated by the event's post-processor
applyOutcome(key, event, result, participants, herd) ==
  IF event = NoEvent THEN result
  ELSE
    LET touched == EventTouches(key, event.personality, result, participants, herd)
        adds == EventDeltas(key, event.personality, result)
        adj == result.adjustments
    IN  [result EXCEPT !.adjustments =
          [id \in (DOMAIN adj) \cup touched |->
             IF id \in touched
               THEN AddAll(IF id \in DOMAIN adj THEN adj[id] ELSE EmptyBag, adds)
               ELSE adj[id]]]

\* an accumulator in which a later delta replaces the earlier one
KeepLast(target, addition) ==
  [id \in (DOMAIN target) \cup (DOMAIN addition) |->
     IF id \in DOMAIN addition
       THEN Assign(IF id \in DOMAIN target THEN target[id] ELSE EmptyBag, addition[id])
       ELSE target[id]]

\* mergeAdjustments(target, addition): the target afterwards
mergeAdjustments(target, addition) ==
  [id \in (DOMAIN target) \cup (DOMAIN addition) |->
     IF id \in DOMAIN addition
       THEN AddAll(IF id \in DOMAIN target THEN target[id] ELSE EmptyBag, addition[id])
       ELSE target[id]]

(***************************************************************************)
(* core/state.ts: the committer                                            *)
(***************************************************************************)
\* one stat of applyCowAdjustments: clamp(cow[key] + diff[key], 0, 100)
ApplyStat(value, diff, key) ==
  IF key \in DOMAIN diff THEN Clamp(value + diff[key], 0, 100) ELSE value

\* applyCowAdjustments(adjustments): data.cows afterwards
applyCowAdjustments(herd, adjustments) ==
  [i \in DOMAIN herd |->
     IF herd[i].id \notin DOMAIN adjustments THEN herd[i]
     ELSE LET diff == adjustments[herd[i].id]
          IN  [herd[i] EXCEPT
                 !.happiness = ApplyStat(herd[i].happiness, diff, "happiness"),
                 !.chonk = ApplyStat(herd[i].chonk, diff, "chonk"),
                 !.cleanliness = ApplyStat(herd[i].cleanliness, diff, "cleanliness"),
                 !.hunger = ApplyStat(herd[i].hunger, diff, "hunger")]]

\* a grant that reports success without writing the catalog
ClaimAdded(unl, type, item) == [added |-> TRUE, unlocks |-> unl]

\* a grant that does not look for the item in the catalog
GrantUnchecked(unl, type, item) ==
  [added |-> TRUE, unlocks |-> [unl EXCEPT ![type] = Append(unl[type], item)]]

\* addUnlock(type, item): [added |-> the return value, unlocks |-> data.unlocks]
addUnlock(unl, type, item) ==
  IF item \in Range(unl[type]) \/ item \notin Library(type)
    THEN [added |-> FALSE, unlocks |-> unl]
    ELSE [added |-> TRUE, unlocks |-> [unl EXCEPT ![type] = Append(unl[type], item)]]

\* unlockAchievement(key): [added, achievements]
unlockAchievement(earned, key) ==
  IF key \notin ACHIEVEMENTS \/ key \in earned
    THEN [added |-> FALSE, achievements |-> earned]
    ELSE [added |-> TRUE, achievements |-> earned \cup {key}]

\* markFestivalComplete(id): season.completedFestivals afterwards
markFestivalComplete(completed, id) ==
  IF id = "" \/ id \in Range(completed) THEN completed ELSE Append(completed, id)

\* a day outcome whose best streak follows the current one
BestFollows(st, perfectStreak, rewardType) ==
  [st EXCEPT !.perfectDayStreak = Max(0, perfectStreak),
             !.bestPerfectDayStreak = Max(0, perfectStreak),
             !.lastRewardType = IF rewardType # "" THEN rewardType ELSE st.lastRewardType]

\* registerDayOutcome(summary): data.stats afterwards
registerDayOutcome(st, perfectStreak, rewardType) ==
  LET nextStreak == Max(0, perfectStreak)
  IN  [st EXCEPT
         !.perfectDayStreak = nextStreak,
         !.bestPerfectDayStreak =
           IF st.bestPerfectDayStreak < nextStreak THEN nextStreak
           ELSE st.bestPerfectDayStreak,
         !.lastRewardType = IF rewardType # "" THEN rewardType ELSE st.lastRewardType]

\* recordStats(partial)
recordStats(st, partial) ==
  [st EXCEPT !.totalPerfects = st.totalPerfects + partial.totalPerfects,
             !.totalChonks = st.totalChonks + partial.totalChonks]

(***************************************************************************)
(* progression.ts: chooseReward                                            *)
(***************************************************************************)
rewardThemes ==
  << [name |-> "Highland Picnic",
      items |-> << [type |-> "accessories", item |-> "Pastel Bow"],
                   [type |-> "decor", item |-> "Tartan Picnic Rug"],
                   [type |-> "foods", item |-> "Sweet Clover Bale"] >>],
     [name |-> "Forest Trimmings",
      items |-> << [type |-> "accessories", item |-> "Fern Garland"],
                   [type |-> "decor", item |-> "Wildflower Patch"],
                   [type |-> "foods", item |-> "Heather Honey Jar"] >>],
     [name |-> "Sunlit Outing",
      items |-> << [type |-> "accessories", item |-> "Sun Hat"],
                   [type |-> "accessories", item |-> "Starry Bandana"],
                   [type |-> "foods", item |-> "Crisp Apple Crate"] >>],
     [name |-> "Cozy Evenings",
      items |-> << [type |-> "accessories", item |-> "Woolly Scarf"],
                   [type |-> "decor", item |-> "Fairy Lights Garland"],
                   [type |-> "decor", item |-> "Stone Cairn Lantern"] >>],
     [name |-> "Barnyard Keepsakes",
      items |-> << [type |-> "accessories", item |-> "Bell Charm"],
                   [type |-> "decor", item |-> "Milk Churn Planter"],
                   [type |-> "foods", item |-> "Barley Biscuit Stack"] >> ] >>

NoChoice ==
  [type |-> "", item |-> "", theme |-> "", themeMissing |-> 0, festivalId |-> "",
   guaranteedBy |-> ""]

\* the items of every theme, theme by theme, as chooseReward's map labels them
ThemeEntries ==
  [p \in 1..(3 * Len(rewardThemes)) |->
     LET theme == rewardThemes[((p - 1) \div 3) + 1]
         entry == theme.items[((p - 1) % 3) + 1]
     IN  [type |-> entry.type, item |-> entry.item, theme |-> theme.name,
          themeMissing |-> Len(theme.items), festivalId |-> "", guaranteedBy |-> ""]]

\* every locked themed item, theme by theme (themed, flattened)
LockedThemed(unl) ==
  KeepAt(ThemeEntries,
         {p \in DOMAIN ThemeEntries :
            ThemeEntries[p].item \notin Range(unl[ThemeEntries[p].type])})

\* byType[type]
OfType(entries, type) == KeepAt(entries, {i \in DOMAIN entries : entries[i].type = type})

\* pool.filter(item => item.themeMissing === n)
OfMissing(entries, n) ==
  KeepAt(entries, {i \in DOMAIN entries : entries[i].themeMissing = n})

\* pickFromType's candidates: the entries of byType[type] whose themeMissing
\* is the maximum; themed is the list of locked themed items
Candidates(themed, type) ==
  LET pool == OfType(themed, type)
  IN  IF Len(pool) = 0 THEN <<>>
      ELSE OfMissing(pool, CHOOSE m \in {pool[i].themeMissing : i \in DOMAIN pool} :
                             \A i \in DOMAIN pool : pool[i].themeMissing <= m)

\* a preference that is not rotated
FixedPreference(lastRewardType) == <<"accessories", "decor", "foods">>

\* the type preference of the fallback: last reward's type moved to the end
typePreference(lastRewardType) ==
  LET base == <<"accessories", "decor", "foods">>
  IN  IF lastRewardType \in Range(base)
        THEN FilterSeq(base, Range(base) \ {lastRewardType}) \o <<lastRewardType>>
        ELSE base

\* the first type of a preference list that has a candidate, "" for none
FirstAvailable(themed, prefs) ==
  LET ok == {i \in DOMAIN prefs : Len(Candidates(themed, prefs[i])) > 0}
  IN  IF ok = {} THEN "" ELSE prefs[CHOOSE i \in ok : \A j \in ok : i <= j]

\* the three stages of chooseReward after the festival branch: the streak
\* milestone, the perfect-day bonus, the rotation; the type picked from and
\* the guaranteedBy label
RewardStage(themed, perfectDay, nextStreak, lastRewardType) ==
  IF nextStreak # 0 /\ nextStreak % 3 = 0 /\ Len(Candidates(themed, "decor")) > 0
    THEN [type |-> "decor", guaranteedBy |-> "Perfect-day streak"]
  ELSE IF perfectDay /\ Len(Candidates(themed, "accessories")) > 0
    THEN [type |-> "accessories", guaranteedBy |-> "Perfect day bonus"]
  ELSE [type |-> FirstAvailable(themed, typePreference(lastRewardType)), guaranteedBy |-> ""]

\* pick(candidates) of the stage's type, labelled
PickReward(candidates, guaranteedBy, s) ==
  [val |-> [candidates[PickIndex(candidates, s)] EXCEPT !.guaranteedBy = guaranteedBy],
   seed |-> NextSeed(s)]

\* chooseReward past the festival branch
ThemedReward(themed, stage, s) ==
  IF Len(themed) = 0 \/ stage.type = ""
    THEN [val |-> NoChoice, seed |-> s]
    ELSE PickReward(Candidates(themed, stage.type), stage.guaranteedBy, s)

\* the festival branch of chooseReward
FestivalReward(festival) ==
  [type |-> festival.reward.type, item |-> festival.reward.item,
   theme |-> festival.name, themeMissing |-> 0, festivalId |-> festival.id,
   guaranteedBy |-> festival.reward.reason]

\* chooseReward(save, context, seasonContext): [val |-> the reward or NoChoice,
\* seed |-> the seed after pick]
chooseReward(unl, st, ssn, seasonal, perfectDay, nextStreak, s) ==
  IF /\ seasonal.activeFestival # <<>>
     /\ seasonal.activeFestival[1].reward # NoReward
     /\ perfectDay
     /\ ~isFestivalComplete(ssn, seasonal.activeFestival[1].id)
    THEN [val |-> FestivalReward(seasonal.activeFestival[1]), seed |-> s]
    ELSE ThemedReward(LockedThemed(unl),
                      RewardStage(LockedThemed(unl), perfectDay, nextStreak,
                                  st.lastRewardType),
                      s)

(***************************************************************************)
(* core/state.ts: the accessories a cow wears                              *)
(***************************************************************************)
\* data/constants.ts
ACCESSORY_LIMIT == 3

\* a sanitizer that keeps every item of the list
KeepAll(list, owned) == list

RECURSIVE SanitizeFrom(_, _, _, _)
\* the forEach of sanitizeAccessories from position k on, result so far
SanitizeFrom(list, k, result, owned) ==
  IF k > Len(list) THEN result
  ELSE IF \/ list[k] \notin AccessoryLibrary
          \/ list[k] \notin Range(owned)
          \/ list[k] \in Range(result)
          \/ Len(result) >= ACCESSORY_LIMIT
    THEN SanitizeFrom(list, k + 1, result, owned)
    ELSE SanitizeFrom(list, k + 1, Append(result, list[k]), owned)

\* sanitizeAccessories(list) against the unlocked accessories owned
sanitizeAccessories(list, owned) == SanitizeFrom(list, 1, <<>>, owned)

\* setCowAccessories(cowId, accessories): [changed, cows]
setCowAccessories(herd, owned, cowId, accessories) ==
  IF \A i \in DOMAIN herd : herd[i].id # cowId THEN [changed |-> FALSE, cows |-> herd]
  ELSE LET sanitized == sanitizeAccessories(accessories, owned)
       IN  [changed |-> \E i \in DOMAIN herd :
                          herd[i].id = cowId /\ herd[i].accessories # sanitized,
            cows |-> [i \in DOMAIN herd |->
                        IF herd[i].id = cowId
                          THEN [herd[i] EXCEPT !.accessories = sanitized]
                          ELSE herd[i]]]

\* toggleCowAccessory(cowId, accessory): [changed, cows]
toggleCowAccessory(herd, owned, cowId, accessory) ==
  IF \/ \A i \in DOMAIN herd : herd[i].id # cowId
     \/ accessory \notin AccessoryLibrary
     \/ accessory \notin Range(owned)
    THEN [changed |-> FALSE, cows |-> herd]
  ELSE LET current == herd[CHOOSE i \in DOMAIN herd : herd[i].id = cowId].accessories
       IN  IF accessory \in Range(current)
             THEN setCowAccessories(herd, owned, cowId,
                                    KeepAt(current, {i \in DOMAIN current :
                                                       current[i] # accessory}))
           ELSE IF Len(current) >= ACCESSORY_LIMIT
             THEN setCowAccessories(herd, owned, cowId, Append(Tail(current), accessory))
           ELSE setCowAccessories(herd, owned, cowId, Append(current, accessory))

\* randomiseAccessories(cowId): [changed, cows, seed]
randomiseAccessories(herd, owned, cowId, s) ==
  LET unlocked == sanitizeUnlockList(owned, AccessoryLibrary)
  IN  IF (\A i \in DOMAIN herd : herd[i].id # cowId) \/ Len(unlocked) = 0
        THEN [changed |-> FALSE, cows |-> herd, seed |-> s]
      ELSE LET max == Min(ACCESSORY_LIMIT, Len(unlocked))
               s1 == NextSeed(s)
               count == Max(1, 1 + RandIndex(s1, max))
               selection == Sample(unlocked, count, s1)
               set == setCowAccessories(herd, owned, cowId, selection.val)
           IN  [changed |-> set.changed, cows |-> set.cows, seed |-> selection.seed]

\* the addAccessory branch of applyCowAdjustments for the cow cowId
grantAccessory(herd, owned, cowId, accessory) ==
  [i \in DOMAIN herd |->
     IF herd[i].id = cowId /\ accessory # "" /\ accessory \notin Range(herd[i].accessories)
       THEN [herd[i] EXCEPT
               !.accessories = sanitizeAccessories(Append(herd[i].accessories, accessory),
                                                   owned)]
       ELSE herd[i]]

(***************************************************************************)
(* minigames/*.ts and core/loop.ts: the module state of a mini-game from   *)
(* the start of a run on, frame by frame and event by event                *)
(***************************************************************************)
\* no mini-game started yet: the module's `state` is null
NoMini ==
  [key |-> "", runs |-> 0, running |-> FALSE, finished |-> FALSE, timeLeft |-> 0,
   goal |-> 0, left |-> 0, misses |-> 0, window |-> FALSE, brushing |-> FALSE,
   drags |-> 0, disabled |-> FALSE,
   \* loop.ts: running; the frame callbacks requested and neither run nor
   \* cancelled; whether rafId is the handle of one of them
   loop |-> FALSE, pending |-> 0, tracked |-> FALSE,
   \* calls of the run's onComplete; a call of finish the run's finished flag
   \* turned away; a frame or event that found the run no longer running
   completions |-> 0, blocked |-> FALSE, late |-> FALSE]

\* rafId = requestAnimationFrame(step)
requestAnimationFrame(m) == [m EXCEPT !.pending = @ + 1, !.tracked = TRUE]

\* loop.ts step, after the call of the update function
stepAgain(m) == requestAnimationFrame(m)

\* loop.ts startLoop
startLoop(m) ==
  IF m.loop THEN m ELSE requestAnimationFrame([m EXCEPT !.loop = TRUE])

\* loop.ts stopLoop: cancelAnimationFrame(rafId) takes away the callback
\* rafId names, if that one is still pending
stopLoop(m) ==
  [m EXCEPT !.loop = FALSE,
            !.pending = IF m.tracked THEN @ - 1 ELSE @,
            !.tracked = FALSE]

\* the browser runs a pending frame callback: the one rafId names (own) or
\* one requested before it
fired(m, own) ==
  [m EXCEPT !.pending = @ - 1, !.tracked = IF own THEN FALSE ELSE @]

\* stop() of a mini-game; ceilidh also disables its button
stop(m) ==
  stopLoop([m EXCEPT !.running = FALSE,
                     !.disabled = IF m.key = "ceilidh" THEN TRUE ELSE @])

\* the onComplete playMiniGame hands to start: game.stop(); resolve(result)
onComplete(m) == stop([m EXCEPT !.completions = @ + 1])

\* a finish without its finished guard
Refinish(m) ==
  IF m.runs = 0 THEN m
  ELSE onComplete(stopLoop([m EXCEPT !.finished = TRUE, !.running = FALSE]))

\* finish(success, message) of each of the four mini-games, as far as the
\* completion goes
finish(m) ==
  IF m.runs = 0 THEN m
  ELSE IF m.finished THEN [m EXCEPT !.blocked = TRUE]
  ELSE onComplete(stopLoop([m EXCEPT !.finished = TRUE, !.running = FALSE]))

\* a handler that returned at its `!state || !state.running` guard
Ignored(m) == IF m.runs = 0 THEN m ELSE [m EXCEPT !.late = TRUE]

\* start(context) of mini-game key with time frames of time and a goal of
\* goal patches, targets or beats; drags of chips begun earlier stay pending
start(m, key, time, goal) ==
  startLoop([NoMini EXCEPT !.key = key, !.runs = m.runs + 1, !.running = TRUE,
                           !.timeLeft = time, !.goal = goal, !.left = goal,
                           !.window = (key = "ceilidh"), !.drags = m.drags,
                           !.loop = m.loop, !.pending = m.pending,
                           !.tracked = m.tracked])

\* catch update(dt), with dt in units of the time a run is given: escaped
\* says whether a cow reached the fence in this frame
catchUpdate(m, dt, escaped) ==
  IF ~m.running THEN Ignored(m)
  ELSE IF m.timeLeft - dt <= 0 THEN finish([m EXCEPT !.timeLeft = @ - dt])
  ELSE IF escaped THEN finish([m EXCEPT !.timeLeft = @ - dt])
  ELSE [m EXCEPT !.timeLeft = @ - dt]

\* catch onPointerDown: a tap only steers a cow
catchPointerDown(m) == IF ~m.running THEN Ignored(m) ELSE m

\* a countdown that stops at zero and never calls finish
Countdown(m, dt) ==
  IF ~m.running THEN Ignored(m) ELSE [m EXCEPT !.timeLeft = Max(0, @ - dt)]

\* brush and food update(dt)
timedUpdate(m, dt) ==
  IF ~m.running THEN Ignored(m)
  ELSE IF m.timeLeft - dt <= 0 THEN finish([m EXCEPT !.timeLeft = @ - dt])
  ELSE [m EXCEPT !.timeLeft = @ - dt]

\* brushAt(event): the stroke cleans cleaned of the patches still dirty
brushAt(m, cleaned) ==
  IF m.runs = 0 THEN m
  ELSE IF m.left - cleaned = 0 THEN finish([m EXCEPT !.left = 0])
  ELSE [m EXCEPT !.left = @ - cleaned]

\* brush handlePointerDown, handlePointerMove, handlePointerUp
brushPointerDown(m, cleaned) ==
  IF ~m.running THEN Ignored(m) ELSE brushAt([m EXCEPT !.brushing = TRUE], cleaned)

brushPointerMove(m, cleaned) ==
  IF ~m.running \/ ~m.brushing THEN Ignored(m) ELSE brushAt(m, cleaned)

brushPointerUp(m) == IF m.runs = 0 THEN m ELSE [m EXCEPT !.brushing = FALSE]

\* food handlePointerDown: a chip is picked up
foodPointerDown(m) == IF ~m.running THEN Ignored(m) ELSE [m EXCEPT !.drags = @ + 1]

\* food processDrop(chip, target): the chip satisfies a hungry cow, is a
\* further serve within the limit of a satisfied cow, overfeeds, or is wrong
processDrop(m, drop) ==
  IF m.runs = 0 THEN m
  ELSE IF drop = "satisfy"
    THEN IF m.left - 1 = 0 THEN finish([m EXCEPT !.left = 0])
         ELSE [m EXCEPT !.left = @ - 1]
  ELSE IF drop = "again"
    THEN IF m.left = 0 THEN finish(m) ELSE m
  ELSE IF drop = "mistake"
    THEN [m EXCEPT !.misses = Min(MiniMisses, @ + 1)]
  ELSE m

\* the end listener of a dragged chip: pointerup or pointercancel
foodPointerEnd(m, drop) ==
  IF drop = "none" THEN [m EXCEPT !.drags = @ - 1]
  ELSE processDrop([m EXCEPT !.drags = @ - 1], drop)

\* ceilidh checkCompletion
checkCompletion(m) ==
  IF m.runs = 0 \/ m.finished THEN m
  ELSE IF m.left <= 0 THEN finish(m)
  ELSE IF m.misses >= (m.goal + 1) \div 2 THEN finish(m)
  ELSE m

\* ceilidh handleTap
handleTap(m) ==
  IF ~m.running THEN Ignored(m)
  ELSE IF m.window
    THEN checkCompletion([m EXCEPT !.left = @ - 1, !.window = FALSE])
    ELSE checkCompletion([m EXCEPT !.misses = @ + 1])

\* ceilidh update(dt): faded says whether the tap window ran out in this
\* frame, beat whether the beat timer reached its interval
ceilidhUpdate(m, dt, faded, beat) ==
  IF ~m.running THEN Ignored(m)
  ELSE LET ticked == [m EXCEPT !.timeLeft = Max(0, @ - dt),
                               !.window = IF beat THEN TRUE
                                          ELSE IF faded THEN FALSE ELSE @]
       IN  IF ticked.timeLeft <= 0 THEN finish(ticked) ELSE ticked

(***************************************************************************)
(* The family challenge ledger (State.getFamilyChallenge and               *)
(* State.completeFamilyChallengeDay), after section 4.6 of the             *)
(* specification                                                           *)
(***************************************************************************)
\* a save without family challenge
NoFamily ==
  [enabled |-> FALSE, participants |-> <<>>, rotationIndex |-> 0,
   streak |-> 0, bestStreak |-> 0, totals |-> <<>>, lastMvp |-> "", mvpPivot |-> 0]

\* the running stats of a participant who has not played
NoTotals == [plays |-> 0, wins |-> 0, perfects |-> 0, score |-> 0, mvpCount |-> 0]

\* +2 for a perfect, +1 for a plain success, +0 otherwise
AssignmentScore(a) == IF a.perfect THEN 2 ELSE IF a.success THEN 1 ELSE 0

\* the assignments of the day that went to participant id
AssignedTo(assignments, id) ==
  {k \in DOMAIN assignments : assignments[k].participantId = id}

\* the score of a participant over the day's assignments
DayScore(assignments, id) ==
  2 * Cardinality({k \in AssignedTo(assignments, id) : assignments[k].perfect})
    + Cardinality({k \in AssignedTo(assignments, id) :
                     assignments[k].success /\ ~assignments[k].perfect})

\* the positions of the participants with the day's highest score
TopScorers(participants, assignments) ==
  {i \in DOMAIN participants :
     \A j \in DOMAIN participants :
       DayScore(assignments, participants[j]) <= DayScore(assignments, participants[i])}

\* an election that always takes the first participant
FirstListed(participants, lastMvp, pivot, assignments) ==
  [mvp |-> participants[1], pivot |-> pivot]

\* the MVP of the day and the pivot afterwards: the only top scorer; on a tie
\* the top scorer met first when walking the rotation from the participant
\* after the previous MVP; without a previous MVP the top scorer the pivot
\* selects, and the pivot moves on
electMvp(participants, lastMvp, pivot, assignments) ==
  LET n == Len(participants)
      top == TopScorers(participants, assignments)
      previous == {i \in DOMAIN participants : participants[i] = lastMvp}
  IN  IF Cardinality(top) = 1
        THEN [mvp |-> participants[CHOOSE i \in top : TRUE], pivot |-> pivot]
      ELSE IF previous # {}
        THEN LET p == CHOOSE i \in previous : \A j \in previous : i <= j
                 Steps(i) == (i - p - 1 + n) % n
             IN  [mvp |-> participants[CHOOSE i \in top :
                                         \A j \in top : Steps(i) <= Steps(j)],
                  pivot |-> pivot]
      ELSE [mvp |-> participants[Ascending(top)[(pivot % Cardinality(top)) + 1]],
            pivot |-> pivot + 1]

\* completeFamilyChallengeDay(call): [family |-> the ledger afterwards,
\* summary |-> <<>> or <<the day's family summary>>]
completeFamilyChallengeDay(ledger, call) ==
  IF ~ledger.enabled \/ Len(ledger.participants) = 0
    THEN [family |-> ledger, summary |-> <<>>]
    ELSE
      LET n == Len(ledger.participants)
          elected == electMvp(ledger.participants, ledger.lastMvp, ledger.mvpPivot,
                              call.assignments)
          streak == IF call.perfectDay THEN ledger.streak + 1 ELSE 0
          Mine(i) == AssignedTo(call.assignments, ledger.participants[i])
          totals ==
            [i \in DOMAIN ledger.participants |->
               LET old == IF i \in DOMAIN ledger.totals THEN ledger.totals[i] ELSE NoTotals
               IN  [plays |-> old.plays + Cardinality(Mine(i)),
                    wins |-> old.wins
                               + Cardinality({k \in Mine(i) : call.assignments[k].success}),
                    perfects |-> old.perfects
                                   + Cardinality({k \in Mine(i) : call.assignments[k].perfect}),
                    score |-> old.score + DayScore(call.assignments, ledger.participants[i]),
                    mvpCount |-> old.mvpCount
                                   + (IF ledger.participants[i] = elected.mvp THEN 1 ELSE 0)]]
          next == call.nextRotationIndex % n
      IN  [family |->
             [ledger EXCEPT !.rotationIndex = next,
                            !.streak = streak,
                            !.bestStreak = Max(ledger.bestStreak, streak),
                            !.totals = totals,
                            !.lastMvp = elected.mvp,
                            !.mvpPivot = elected.pivot],
           summary |->
             << [enabled |-> TRUE, mvp |-> elected.mvp, streak |-> streak,
                 bestStreak |-> Max(ledger.bestStreak, streak),
                 nextPlayer |-> ledger.participants[next + 1],
                 assignments |-> call.assignments] >>]

(***************************************************************************)
(* progression.ts: startDay                                                *)
(***************************************************************************)
NoGame == [key |-> "", participants |-> <<>>, modifiers |-> EmptyBag, targets |-> <<>>]

NoOutcome ==
  [success |-> FALSE, adjustments |-> EmptyBag,
   stats |-> [totalPerfects |-> 0, totalChonks |-> 0]]

IdleRun ==
  [queue |-> <<>>, i |-> 0, eventPlan |-> [events |-> [k \in Kinds |-> NoEvent]],
   season |-> [day |-> 0, dayOfSeason |-> 0, activeFestival |-> <<>>, nextFestival |-> <<>>],
   participants |-> <<>>, event |-> NoEvent, game |-> NoGame,
   results |-> <<>>, adjustments |-> EmptyBag,
   stats |-> [totalPerfects |-> 0, totalChonks |-> 0],
   achievementsUnlocked |-> <<>>, foods |-> <<>>, previousPerfectStreak |-> 0,
   familyActive |-> FALSE, familyParticipants |-> <<>>, familyRotationIndex |-> 0,
   familyCaretaker |-> "", familyAssignments |-> <<>>]

\* the caretaker of iteration r.i: familyParticipants[familyRotationIndex % n],
\* "" when the family challenge is not active
Caretaker(r) ==
  IF r.familyActive /\ Len(r.familyParticipants) > 0
    THEN r.familyParticipants[(r.familyRotationIndex % Len(r.familyParticipants)) + 1]
    ELSE ""

\* a rotation that stays where it is
StayPut(r) == r.familyRotationIndex

\* familyRotationIndex after the caretaker of iteration r.i was taken
AdvanceRotation(r) ==
  IF Caretaker(r) # "" /\ Len(r.familyParticipants) > 0
    THEN (r.familyRotationIndex + 1) % Len(r.familyParticipants)
    ELSE r.familyRotationIndex

\* nothing stored by this session, no write in the day in progress
NoStorage == [data |-> <<>>, writes |-> <<>>]

\* what JSON.stringify(data) keeps of the save
Snapshot(d, herd, owned, st, earned, ssn) ==
  [day |-> d, cows |-> herd, unlocks |-> owned, stats |-> st, achievements |-> earned,
   season |-> ssn]

\* a call of saveNow by the function by, in the mini-game loop ("loop") or elsewhere
Write(by, snapshot) == [by |-> by, data |-> snapshot]

\* storage after the writes of log, in their order
Written(store, log) ==
  IF log = <<>> THEN store
  ELSE [data |-> <<log[Len(log)].data>>, writes |-> store.writes \o log]

\* the saveNow of unlockAchievement in the loop body, when the event's
\* achievement was newly unlocked
LoopWrites(earned) ==
  IF earned # achievements
    THEN <<Write("loop", Snapshot(day, cows, unlocks, stats, earned, season))>>
    ELSE <<>>

\* the body of the for loop up to the await of iteration r.i: participants,
\* the event in force, and the start of the mini-game, which is added to the events so far
BeginGame(r, s, events) ==
  \E key \in {r.queue[r.i + 1]} :
  \E picked \in {pickParticipants(cows, Min(3, Len(cows)), r.eventPlan.events[key], s)} :
  \E event \in {eventForMini(key, picked.val, r.eventPlan, cows)} :
  \E started \in {StartGame(key, picked.val, Min(10, day + r.i),
                            IF event # NoEvent THEN event.modifiers ELSE EmptyBag,
                            r.foods, cows, picked.seed)} :
    /\ run' = [r EXCEPT !.participants = picked.val, !.event = event,
                        !.game = started.game,
                        !.familyCaretaker = Caretaker(r),
                        !.familyRotationIndex = AdvanceRotation(r)]
    /\ seed' = started.seed
    /\ trace' = Append(events, <<"start", started.game.key>>)

\* a loop body that drops the result it was given
DropResult(r, result, earned) ==
  [run |-> r, merged |-> [id \in {} |-> 0], achievements |-> earned]

\* the loop body after the await: post-processor, result entry, accumulation,
\* achievement. [run, achievements]
AfterGame(r, result, earned) ==
  LET key == r.queue[r.i + 1]
      processed == applyOutcome(key, r.event, result, r.participants, cows)
      granted ==
        IF r.event # NoEvent /\ r.event.achievementOnSuccess # "" /\ processed.success
          THEN unlockAchievement(earned, r.event.achievementOnSuccess)
          ELSE [added |-> FALSE, achievements |-> earned]
  IN  [run |-> [r EXCEPT
                  !.results = Append(r.results, [key |-> key, success |-> processed.success]),
                  !.adjustments = mergeAdjustments(r.adjustments, processed.adjustments),
                  !.stats =
                    [totalPerfects |-> r.stats.totalPerfects + processed.stats.totalPerfects,
                     totalChonks |-> r.stats.totalChonks + processed.stats.totalChonks],
                  !.familyAssignments =
                    IF r.familyCaretaker # ""
                      THEN Append(r.familyAssignments,
                                  [participantId |-> r.familyCaretaker,
                                   miniGame |-> key,
                                   success |-> processed.success,
                                   perfect |-> processed.success
                                                 /\ processed.stats.totalPerfects > 0])
                      ELSE r.familyAssignments,
                  !.achievementsUnlocked =
                    IF granted.added
                      THEN Append(r.achievementsUnlocked, r.event.achievementOnSuccess)
                      ELSE r.achievementsUnlocked],
       merged |-> processed.adjustments,
       achievements |-> granted.achievements]

\* a day that counts as perfect as soon as one game succeeded
SomeSuccess(results) == \E i \in DOMAIN results : results[i].success

\* every(entry => entry.success) over a non-empty result list
PerfectDay(results) ==
  Len(results) > 0 /\ \A i \in DOMAIN results : results[i].success

\* history of the calls of ensurePlan since the last committed day: the day and
\* the id:personality pairs of the save it was called with, the plan returned,
\* the seed before and after, and the same of the call before it
PlanCall(d, herd, plan, before, after) ==
  [day |-> d,
   pairs |-> {<<herd[i].id, herd[i].personality>> : i \in DOMAIN herd},
   plan |-> plan, seedBefore |-> before, seedAfter |-> after,
   prior |-> IF lastPreview = <<>> THEN <<>>
             ELSE << [day |-> lastPreview[1].day, pairs |-> lastPreview[1].pairs,
                      plan |-> lastPreview[1].plan] >>]

\* getPreviewPlan(save), as refreshFarm calls it
Preview ==
  /\ pc = "idle"
  /\ \E planned \in {ensurePlan(preparedPlan, season, day, cows, seed)} :
         /\ preparedPlan' = <<planned.val>>
         /\ seed' = planned.seed
         /\ lastPreview' = <<PlanCall(day, cows, planned.val, seed, planned.seed)>>
  /\ UNCHANGED <<day, cows, unlocks, stats, achievements, season, running, pc, run,
                 outcome, lastResults, trace, deltaLog, dayStart, daysRun, resets,
                 family, mini, storage, turnedAway>>

\* a startDay that starts a day whatever the flag says
NeverTurnedAway == FALSE

\* startDay: if (running) return
TurnedAway == running

\* startDay called while a mini-game is awaited: it returns at once
startDayReturn ==
  /\ TurnedAway
  /\ pc = "awaiting"
  /\ turnedAway < MaxCalls
  /\ turnedAway' = turnedAway + 1
  /\ UNCHANGED <<seed, day, cows, unlocks, stats, achievements, season, preparedPlan,
                 running, pc, run, outcome, lastResults, trace, deltaLog, dayStart,
                 lastPreview, daysRun, resets, family, mini, storage>>

\* startDay up to its first await, but for the module state of the
\* mini-game it starts
startDayToAwait ==
  /\ ~TurnedAway
  /\ pc \in {"idle", "awaiting"}
  /\ daysRun < MaxDays
  /\ \E planned \in {ensurePlan(preparedPlan, season, day, cows, seed)} :
     \E plan \in {planned.val} :
     \E first \in {[IdleRun EXCEPT
                       !.queue = plan.queue,
                       !.eventPlan = plan.eventPlan,
                       !.season = plan.season,
                       !.foods = getUnlocks("foods"),
                       !.previousPerfectStreak = stats.perfectDayStreak,
                       !.familyActive = family.enabled /\ Len(family.participants) > 0,
                       !.familyParticipants = family.participants,
                       !.familyRotationIndex =
                         IF family.enabled /\ Len(family.participants) > 0
                           THEN family.rotationIndex % Len(family.participants)
                           ELSE 0]} :
         /\ preparedPlan' = <<plan>>
         /\ BeginGame(first, planned.seed, <<>>)
         /\ lastPreview' = <<PlanCall(day, cows, plan, seed, planned.seed)>>
  /\ running' = TRUE
  /\ pc' = "awaiting"
  /\ deltaLog' = <<>>
  /\ dayStart' = [day |-> day, queue |-> run'.queue, cows |-> cows, unlocks |-> unlocks, stats |-> stats,
                  season |-> season, achievements |-> achievements, family |-> family]
  /\ daysRun' = daysRun + 1
  /\ storage' = [storage EXCEPT !.writes = <<>>]
  /\ UNCHANGED <<day, cows, unlocks, stats, achievements, season, outcome,
                 lastResults, resets, family, turnedAway>>

\* startDay up to its first await, called from the farm screen or while a
\* mini-game is awaited
StartDay ==
  \/ startDayReturn
  \/ startDayToAwait /\ UNCHANGED mini

\* what the player may have done by the time the active mini-game finishes
MissChoices == {0}
OverfedChoices == {0, 1}
MistakeChoices == {0}
QuickChoices == {TRUE}
Plays(game) ==
  CASE game.key = "catch" ->
         {[success |-> s, misses |-> 0, overfed |-> 0, mistakes |-> 0, quick |-> TRUE] :
            s \in BOOLEAN}
    [] game.key = "brush" ->
         {[success |-> s, misses |-> 0, overfed |-> 0, mistakes |-> 0, quick |-> q] :
            s \in BOOLEAN, q \in QuickChoices}
    [] game.key = "food" ->
         \* a round with no target can only time out
         {p \in {[success |-> s, misses |-> 0, overfed |-> o, mistakes |-> m, quick |-> TRUE] :
                   s \in BOOLEAN, o \in OverfedChoices, m \in MistakeChoices} :
            /\ p.success => Len(game.targets) > 0
            /\ p.overfed <= Len(game.targets)}
    [] OTHER ->
         {[success |-> s, misses |-> m, overfed |-> 0, mistakes |-> 0, quick |-> TRUE] :
            s \in BOOLEAN, m \in MissChoices}

\* playMiniGame's onComplete for a result finish() built from one of plays:
\* game.stop(); resolve(result)
resolve(plays) ==
  /\ pc = "awaiting"
  /\ \E play \in plays :
       outcome' = FinishResult(run.game, cows, play.success, play)
  /\ trace' = Append(trace, <<"stop", run.game.key>>)
  /\ pc' = "resolved"
  /\ UNCHANGED <<seed, day, cows, unlocks, stats, achievements, season, preparedPlan,
                 running, run, lastResults, deltaLog, dayStart, lastPreview, daysRun,
                 resets, family, storage, turnedAway>>

\* an orchestrator that gives up on the active mini-game and ends the day
GiveUp ==
  /\ pc = "awaiting"
  /\ pc' = "idle"
  /\ running' = FALSE
  /\ run' = IdleRun
  /\ UNCHANGED <<seed, day, cows, unlocks, stats, achievements, season, preparedPlan,
                 outcome, lastResults, trace, deltaLog, dayStart, lastPreview, daysRun,
                 resets, family, mini, storage, turnedAway>>

\* finish() of the active mini-game: onComplete stops the game and resolves
\* the promise startDay awaits
FinishMini == resolve(Plays(run.game)) /\ UNCHANGED mini

\* the continuation of startDay after an await that is not the last: the rest
\* of the loop body and the next iteration up to its await, but for the
\* module state of the mini-game it starts
resumeLoop ==
  /\ pc = "resolved"
  /\ run.i + 1 < Len(run.queue)
  /\ \E after \in {AfterGame(run, outcome, achievements)} :
     \E next \in {[after.run EXCEPT !.i = after.run.i + 1]} :
         /\ BeginGame(next, seed, trace)
         /\ achievements' = after.achievements
         /\ deltaLog' = Append(deltaLog, after.merged)
         /\ storage' = Written(storage, LoopWrites(after.achievements))
  /\ pc' = "awaiting"
  /\ outcome' = NoOutcome
  /\ UNCHANGED <<day, cows, unlocks, stats, season, preparedPlan, running, lastResults,
                 dayStart, lastPreview, daysRun, resets, family, turnedAway>>

\* the continuation of startDay after an await that is not the last
ResumeNext == resumeLoop /\ UNCHANGED mini

\* the continuation of startDay after its last await: the rest of the loop
\* body, then everything after the loop
ResumeCommit ==
  /\ pc = "resolved"
  /\ run.i + 1 >= Len(run.queue)
  /\ \E after \in {AfterGame(run, outcome, achievements)} :
     \E adjusted \in {applyCowAdjustments(cows, after.run.adjustments)} :
     \E perfectDay \in {PerfectDay(after.run.results)} :
     \E familyCall \in {[assignments |-> after.run.familyAssignments,
                         perfectDay |-> perfectDay,
                         day |-> day,
                         nextRotationIndex |->
                           IF Len(after.run.familyParticipants) > 0
                             THEN after.run.familyRotationIndex
                                    % Len(after.run.familyParticipants)
                             ELSE 0]} :
     \E ledger \in {IF after.run.familyActive
                      THEN completeFamilyChallengeDay(family, familyCall)
                      ELSE [family |-> family, summary |-> <<>>]} :
     \E perfect \in {IF perfectDay
                       THEN unlockAchievement(after.achievements, "perfectDay")
                       ELSE [added |-> FALSE, achievements |-> after.achievements]} :
     \E nextStreak \in {IF perfectDay THEN stats.perfectDayStreak + 1 ELSE 0} :
     \E chosen \in {chooseReward(unlocks, stats, season, after.run.season, perfectDay,
                                 nextStreak, seed)} :
     \E unlocked \in {IF chosen.val # NoChoice
                        THEN addUnlock(unlocks, chosen.val.type, chosen.val.item)
                        ELSE [added |-> FALSE, unlocks |-> unlocks]} :
     \E reward \in {IF unlocked.added THEN chosen.val ELSE NoChoice} :
     \E registered \in {registerDayOutcome(recordStats(stats, after.run.stats),
                                           nextStreak, reward.type)} :
     \E sentinel \in {IF \A i \in DOMAIN adjusted : adjusted[i].chonk < 70
                        THEN unlockAchievement(perfect.achievements, "chonkSentinel")
                        ELSE [added |-> FALSE, achievements |-> perfect.achievements]} :
       /\ cows' = adjusted
       /\ achievements' = sentinel.achievements
       /\ unlocks' = unlocked.unlocks
       /\ season' =
            [season EXCEPT !.completedFestivals =
               IF chosen.val # NoChoice /\ chosen.val.festivalId # ""
                 THEN markFestivalComplete(season.completedFestivals, chosen.val.festivalId)
                 ELSE season.completedFestivals]
       /\ stats' = registered
       /\ family' = ledger.family
       /\ storage' =
            Written(storage,
              LoopWrites(after.achievements)
                \o (IF perfect.added
                      THEN <<Write("perfectDay",
                                   Snapshot(day, adjusted, unlocks, stats,
                                            perfect.achievements, season))>>
                      ELSE <<>>)
                \o (IF unlocked.added
                      THEN <<Write("addUnlock",
                                   Snapshot(day, adjusted, unlocked.unlocks, stats,
                                            perfect.achievements, season))>>
                      ELSE <<>>)
                \o <<Write("registerDayOutcome",
                           Snapshot(day, adjusted, unlocked.unlocks, registered,
                                    perfect.achievements, season'))>>
                \o (IF sentinel.added
                      THEN <<Write("chonkSentinel",
                                   Snapshot(day + 1, adjusted, unlocked.unlocks, registered,
                                            sentinel.achievements, season'))>>
                      ELSE <<>>)
                \o <<Write("startDay",
                           Snapshot(day + 1, adjusted, unlocked.unlocks, registered,
                                    sentinel.achievements, season'))>>)
       /\ seed' = chosen.seed
       /\ deltaLog' = Append(deltaLog, after.merged)
       /\ lastResults' =
            << [day |-> day,
                results |-> after.run.results,
                adjustments |-> after.run.adjustments,
                reward |-> reward,
                \* what chooseReward returned, kept for the properties
                chosen |-> chosen.val,
                \* the argument of completeFamilyChallengeDay, if it was called
                familyCall |-> IF after.run.familyActive THEN <<familyCall>> ELSE <<>>,
                familyChallenge |-> ledger.summary,
                perfectDay |-> perfectDay,
                perfectStreak |-> registered.perfectDayStreak,
                previousPerfectStreak |-> after.run.previousPerfectStreak,
                achievementsUnlocked |->
                  after.run.achievementsUnlocked
                    \o (IF perfect.added THEN <<"perfectDay">> ELSE <<>>)
                    \o (IF sentinel.added THEN <<"chonkSentinel">> ELSE <<>>),
                festivalResult |->
                  IF chosen.val # NoChoice /\ chosen.val.festivalId # ""
                    THEN << [id |-> chosen.val.festivalId,
                             rewardUnlocked |-> unlocked.added,
                             rewardItem |-> chosen.val.item] >>
                    ELSE <<>>] >>
  /\ day' = day + 1
  /\ preparedPlan' = <<>>
  /\ running' = FALSE
  /\ pc' = "idle"
  /\ run' = IdleRun
  /\ outcome' = NoOutcome
  /\ lastPreview' = <<>>
  /\ turnedAway' = 0
  /\ UNCHANGED <<trace, dayStart, daysRun, resets, mini>>

(***************************************************************************)
(* core/state.ts: newSave and reset, as the title screen's onReset runs it *)
(***************************************************************************)
\* newCow(id, name): personality and coat are one pick each, in that order
newCow(id, s) ==
  [val |-> [id |-> id,
            personality |-> PERSONALITIES[PickIndex(PERSONALITIES, s)],
            happiness |-> 70, chonk |-> 20, cleanliness |-> 60, hunger |-> 40,
            accessories |-> <<>>],
   seed |-> Advance(s, 2)]

\* the loop of newSave over n cows
NewHerd(n, s) ==
  [val |-> [k \in 1..n |-> newCow(k, Advance(s, 2 * (k - 1))).val],
   seed |-> Advance(s, 2 * n)]

NewUnlocks == [foods |-> DEFAULT_FOODS, accessories |-> <<>>, decor |-> <<>>]
NewStats ==
  [totalPerfects |-> 0, totalChonks |-> 0, perfectDayStreak |-> 0,
   bestPerfectDayStreak |-> 0, lastRewardType |-> ""]
NewSeason == [startDay |-> 1, completedFestivals |-> <<>>]

\* onReset: State.reset() and then refreshFarm's getPreviewPlan
Reset ==
  /\ pc = "idle"
  /\ resets < MaxResets
  /\ \E herd \in {NewHerd(4, seed)} :
     \E planned \in {ensurePlan(preparedPlan, NewSeason, 1, herd.val, herd.seed)} :
         /\ cows' = herd.val
         /\ preparedPlan' = <<planned.val>>
         /\ seed' = planned.seed
         /\ lastPreview' = <<PlanCall(1, herd.val, planned.val, herd.seed, planned.seed)>>
  /\ day' = 1
  /\ unlocks' = NewUnlocks
  /\ stats' = NewStats
  /\ achievements' = {}
  /\ season' = NewSeason
  /\ resets' = resets + 1
  /\ family' = NoFamily
  /\ storage' = [data |-> <<Snapshot(1, cows', NewUnlocks, NewStats, {}, NewSeason)>>,
                 writes |-> <<>>]
  /\ UNCHANGED <<running, pc, run, outcome, lastResults, trace, deltaLog, dayStart, daysRun,
                 mini, turnedAway>>

(***************************************************************************)
(* Initial states: saves loadSave can hand to the game                     *)
(***************************************************************************)
\* a cow with the stats newCow gives
Cow(id, personality) ==
  [id |-> id, personality |-> personality,
   happiness |-> 70, chonk |-> 20, cleanliness |-> 60, hunger |-> 40,
   accessories |-> <<>>]

\* a cow near the bounds of its stats
EdgeCow(id, personality) ==
  [id |-> id, personality |-> personality,
   happiness |-> 96, chonk |-> 66, cleanliness |-> 85, hunger |-> 5,
   accessories |-> <<>>]

DecorOwner == [NewUnlocks EXCEPT !.decor = Append(NewUnlocks.decor, "Festival Bunting")]

OnStreak == [NewStats EXCEPT !.perfectDayStreak = 2, !.bestPerfectDayStreak = 4]

\* every themed food and decor item is owned, the last reward was an accessory
Collector ==
  [NewUnlocks EXCEPT
     !.foods = NewUnlocks.foods \o <<"Sweet Clover Bale", "Heather Honey Jar",
                                     "Crisp Apple Crate", "Barley Biscuit Stack">>,
     !.decor = <<"Tartan Picnic Rug", "Wildflower Patch", "Fairy Lights Garland",
                 "Stone Cairn Lantern", "Milk Churn Planter">>]

AfterAccessory == [NewStats EXCEPT !.lastRewardType = "accessories"]

\* three participants and a stored rotation index beyond their number
Trio ==
  [NoFamily EXCEPT !.enabled = TRUE, !.participants = <<"ailsa", "blair", "callum">>,
                   !.rotationIndex = 4]

\* more participants than mini-games in a day, and a previous MVP
Quintet ==
  [NoFamily EXCEPT !.enabled = TRUE,
                   !.participants = <<"ailsa", "blair", "callum", "dougal", "elspeth">>,
                   !.rotationIndex = 3, !.lastMvp = "blair"]

Saves ==
  { [seed |-> 20250101, day |-> 1, unlocks |-> NewUnlocks, stats |-> NewStats,
     cows |-> <<EdgeCow(1, "Greedy"), Cow(2, "Social")>>, family |-> Trio],
    [seed |-> 1234567, day |-> 6, unlocks |-> DecorOwner, stats |-> OnStreak,
     cows |-> <<Cow(1, "Sleepy"), EdgeCow(2, "Vain"), Cow(3, "Vain"), Cow(4, "Greedy")>>,
     family |-> NoFamily],
    [seed |-> 20250101, day |-> 7, unlocks |-> NewUnlocks, stats |-> OnStreak,
     cows |-> <<EdgeCow(1, "Social"), EdgeCow(2, "Sleepy"), Cow(3, "Social")>>,
     family |-> NoFamily],
    [seed |-> 1234567, day |-> 30, unlocks |-> Collector, stats |-> AfterAccessory,
     cows |-> <<Cow(1, "Vain")>>, family |-> Quintet],
    [seed |-> 20250101, day |-> 2, unlocks |-> NewUnlocks, stats |-> NewStats,
     cows |-> <<>>, family |-> NoFamily] }

TypeOK ==
  /\ seed \in 1..(RngModulus - 1)
  /\ day \in Nat
  /\ running \in BOOLEAN
  /\ pc \in {"idle", "awaiting", "resolved"}

Init ==
  /\ \E save \in Saves :
       /\ seed = save.seed
       /\ day = save.day
       /\ cows = save.cows
       /\ unlocks = save.unlocks
       /\ stats = save.stats
       /\ family = save.family
  /\ achievements = {}
  /\ season = NewSeason
  /\ preparedPlan = <<>>
  /\ running = FALSE
  /\ pc = "idle"
  /\ run = IdleRun
  /\ outcome = NoOutcome
  /\ lastResults = <<>>
  /\ trace = <<>>
  /\ deltaLog = <<>>
  /\ dayStart = [day |-> 0, queue |-> <<>>, cows |-> <<>>, unlocks |-> NewUnlocks, stats |-> NewStats,
                 season |-> NewSeason, achievements |-> {}, family |-> NoFamily]
  /\ lastPreview = <<>>
  /\ daysRun = 0
  /\ resets = 0
  /\ mini = NoMini
  /\ storage = NoStorage
  /\ turnedAway = 0

Next ==
  \/ Preview
  \/ StartDay
  \/ FinishMini
  \/ ResumeNext
  \/ ResumeCommit
  \/ Reset

Spec == Init /\ [][Next]_vars


(***************************************************************************)
(* The planner on its own: previews of saves drawn from wider sets          *)
(***************************************************************************)
MaxHerd == 3
MaxPlanSeed == 30

\* days completed in a behaviour of the family ledger alone, and the most
\* mini-games assigned in one of them
MaxFamilyDays == 2
MaxAssign == 3

\* every herd of up to MaxHerd cows, by personality
PlanHerds ==
  UNION {[1..n -> Range(PERSONALITIES)] : n \in 0..MaxHerd}

\* days before, inside and after the festival weeks of the calendar
PlanDays == {1, 2, 7, 8, 9, 15, 22, 24}

\* the saves the planner is run on: every herd on every day with one seed,
\* and one herd with every seed
PlanSaves ==
  {[seed |-> 20250101, day |-> d, startDay |-> sd, herd |-> h] :
     d \in PlanDays, sd \in {1, 3}, h \in PlanHerds}
  \cup {[seed |-> x, day |-> 1, startDay |-> 1, herd |-> <<"Vain", "Social">>] :
          x \in (1..MaxPlanSeed) \cup {RngModulus - 1}}

InitPlan ==
  /\ \E save \in PlanSaves :
       /\ seed = save.seed
       /\ day = save.day
       /\ cows = [i \in DOMAIN save.herd |-> Cow(i, save.herd[i])]
       /\ season = [NewSeason EXCEPT !.startDay = save.startDay]
  /\ unlocks = NewUnlocks
  /\ stats = NewStats
  /\ family = NoFamily
  /\ achievements = {}
  /\ preparedPlan = <<>>
  /\ running = FALSE
  /\ pc = "idle"
  /\ run = IdleRun
  /\ outcome = NoOutcome
  /\ lastResults = <<>>
  /\ trace = <<>>
  /\ deltaLog = <<>>
  /\ dayStart = [day |-> 0, queue |-> <<>>, cows |-> <<>>, unlocks |-> NewUnlocks, stats |-> NewStats,
                 season |-> NewSeason, achievements |-> {}, family |-> NoFamily]
  /\ lastPreview = <<>>
  /\ daysRun = 0
  /\ resets = 0
  /\ mini = NoMini
  /\ storage = NoStorage
  /\ turnedAway = 0

SpecPlan == InitPlan /\ [][Preview]_vars

(***************************************************************************)
(* The family ledger alone: ledgers drawn from small sets, days completed  *)
(* with every combination of outcomes of their assignments                 *)
(***************************************************************************)
\* the assignments startDay builds for a day of len mini-games whose outcomes are o
DayAssignments(ledger, len, o) ==
  [k \in 1..len |->
     [participantId |->
        ledger.participants[((ledger.rotationIndex + k - 1) % Len(ledger.participants)) + 1],
      miniGame |-> MiniGameKeys[((k - 1) % Len(MiniGameKeys)) + 1],
      success |-> o[k] # "fail",
      perfect |-> o[k] = "perfect"]]

FamilyNames == <<"ailsa", "blair", "callum">>

\* enabled ledgers of one to three participants, with and without a previous
\* MVP, with the pivots 0 and 1 and the rotation at its first and last position
FamilyLedgers ==
  { [NoFamily EXCEPT !.enabled = TRUE,
                     !.participants = SubSeq(FamilyNames, 1, n),
                     !.rotationIndex = r,
                     !.lastMvp = prev,
                     !.mvpPivot = pivot] :
      <<n, r, prev, pivot>> \in
        {t \in (1..Len(FamilyNames)) \X (0..(Len(FamilyNames) - 1))
                 \X ({""} \cup Range(FamilyNames)) \X (0..1) :
           /\ t[2] \in {0, t[1] - 1}
           /\ t[3] \in {""} \cup Range(SubSeq(FamilyNames, 1, t[1]))} }

InitFamily ==
  /\ family \in FamilyLedgers
  /\ seed = 1
  /\ day = 1
  /\ cows = <<>>
  /\ unlocks = NewUnlocks
  /\ stats = NewStats
  /\ achievements = {}
  /\ season = NewSeason
  /\ preparedPlan = <<>>
  /\ running = FALSE
  /\ pc = "idle"
  /\ run = IdleRun
  /\ outcome = NoOutcome
  /\ lastResults = <<>>
  /\ trace = <<>>
  /\ deltaLog = <<>>
  /\ dayStart = [day |-> 0, queue |-> <<>>, cows |-> <<>>, unlocks |-> NewUnlocks, stats |-> NewStats,
                 season |-> NewSeason, achievements |-> {}, family |-> NoFamily]
  /\ lastPreview = <<>>
  /\ daysRun = 0
  /\ resets = 0
  /\ mini = NoMini
  /\ storage = NoStorage
  /\ turnedAway = 0

\* the end of a day of startDay as the ledger sees it: the call of
\* completeFamilyChallengeDay with the day's assignments
CompleteFamilyDay ==
  /\ pc = "idle"
  /\ daysRun < MaxFamilyDays
  /\ \E len \in 1..MaxAssign :
     \E o \in [1..len -> {"fail", "success", "perfect"}] :
     \E call \in {[assignments |-> DayAssignments(family, len, o),
                   perfectDay |-> \A k \in 1..len : o[k] # "fail",
                   day |-> day,
                   nextRotationIndex |->
                     (family.rotationIndex + len) % Len(family.participants)]} :
     \E ledger \in {completeFamilyChallengeDay(family, call)} :
       /\ family' = ledger.family
       /\ lastResults' = << [day |-> day, familyCall |-> <<call>>,
                             familyChallenge |-> ledger.summary] >>
  /\ dayStart' = [dayStart EXCEPT !.day = day, !.family = family]
  /\ day' = day + 1
  /\ daysRun' = daysRun + 1
  /\ UNCHANGED <<seed, cows, unlocks, stats, achievements, season, preparedPlan, running,
                 pc, run, outcome, trace, deltaLog, lastPreview, resets, mini, storage, turnedAway>>

SpecFamily == InitFamily /\ [][CompleteFamilyDay]_vars

(***************************************************************************)
(* A mini-game alone: runs started as playMiniGame starts them, frames of  *)
(* the loop, pointer and tap events and stop() in any order                *)
(***************************************************************************)
\* patches of a brush run at difficulty 1, targets of a food run (one per
\* participant), target beats of a ceilidh run
Goals(key) ==
  IF key = "brush" THEN {5}
  ELSE IF key = "food" THEN 1..3
  ELSE IF key = "ceilidh" THEN {16}
  ELSE {0}

InitMini ==
  /\ family = NoFamily
  /\ seed = 1
  /\ day = 1
  /\ cows = <<>>
  /\ unlocks = NewUnlocks
  /\ stats = NewStats
  /\ achievements = {}
  /\ season = NewSeason
  /\ preparedPlan = <<>>
  /\ running = FALSE
  /\ pc = "idle"
  /\ run = IdleRun
  /\ outcome = NoOutcome
  /\ lastResults = <<>>
  /\ trace = <<>>
  /\ deltaLog = <<>>
  /\ dayStart = [day |-> 0, queue |-> <<>>, cows |-> <<>>, unlocks |-> NewUnlocks, stats |-> NewStats,
                 season |-> NewSeason, achievements |-> {}, family |-> NoFamily]
  /\ lastPreview = <<>>
  /\ daysRun = 0
  /\ resets = 0
  /\ mini = NoMini
  /\ storage = NoStorage
  /\ turnedAway = 0

Others ==
  <<seed, day, cows, unlocks, stats, achievements, season, preparedPlan, running, pc, run,
    outcome, lastResults, trace, deltaLog, dayStart, lastPreview, daysRun, resets, family,
    storage, turnedAway>>

\* playMiniGame: game.start(startContext); startDay starts a game only after
\* the one before it completed
MiniStart ==
  /\ mini.runs < MaxRuns
  /\ mini.runs = 0 \/ mini.completions > 0
  /\ \E key \in (IF mini.runs = 0 THEN Kinds ELSE {mini.key}) :
     \E time \in 1..MiniTime :
     \E goal \in Goals(key) :
       mini' = start(mini, key, time, goal)
  /\ UNCHANGED Others

\* loop.ts step: a frame callback; it calls the update function while the
\* loop is running, with the time since the frame before
MiniFrame ==
  /\ mini.pending > 0
  /\ \E own \in BOOLEAN :
       /\ own => mini.tracked
       /\ ~own => mini.pending > (IF mini.tracked THEN 1 ELSE 0)
       /\ \E m \in {fired(mini, own)} :
            IF ~m.loop THEN mini' = Ignored(m)
            ELSE \E dt \in 0..1 :
                   IF m.key = "catch"
                     THEN \E escaped \in BOOLEAN :
                            mini' = stepAgain(catchUpdate(m, dt, escaped))
                   ELSE IF m.key = "ceilidh"
                     THEN \E faded \in BOOLEAN : \E beat \in BOOLEAN :
                            mini' = stepAgain(ceilidhUpdate(m, dt, faded, beat))
                   ELSE mini' = stepAgain(timedUpdate(m, dt))
  /\ UNCHANGED Others

\* a pointerdown on the catch canvas, the brush surface or a food chip
MiniPointerDown ==
  /\ mini.key \in {"catch", "brush", "food"}
  /\ IF mini.key = "catch" THEN mini' = catchPointerDown(mini)
     ELSE IF mini.key = "brush"
       THEN \E cleaned \in 0..mini.left : mini' = brushPointerDown(mini, cleaned)
     ELSE /\ mini.drags < MaxDrags
          /\ mini' = foodPointerDown(mini)
  /\ UNCHANGED Others

\* a pointermove on the brush surface
MiniPointerMove ==
  /\ mini.key = "brush"
  /\ \E cleaned \in 0..mini.left : mini' = brushPointerMove(mini, cleaned)
  /\ UNCHANGED Others

\* a pointerup on the brush surface, or the end of the drag of a food chip
MiniPointerUp ==
  /\ mini.key \in {"brush", "food"}
  /\ IF mini.key = "brush" THEN mini' = brushPointerUp(mini)
     ELSE /\ mini.drags > 0
          /\ \E drop \in {"none", "overfed", "mistake"}
                           \cup (IF mini.left > 0 THEN {"satisfy"} ELSE {})
                           \cup (IF mini.left < mini.goal THEN {"again"} ELSE {}) :
               mini' = foodPointerEnd(mini, drop)
  /\ UNCHANGED Others

\* a click on the ceilidh button, which a disabled button does not deliver
MiniTap ==
  /\ mini.key = "ceilidh"
  /\ ~mini.disabled
  /\ mini' = handleTap(mini)
  /\ UNCHANGED Others

\* stop() called on the mini-game from outside
MiniStop ==
  /\ mini.runs > 0
  /\ mini' = stop(mini)
  /\ UNCHANGED Others

NextMini ==
  \/ MiniStart
  \/ MiniFrame
  \/ MiniPointerDown
  \/ MiniPointerMove
  \/ MiniPointerUp
  \/ MiniTap
  \/ MiniStop

SpecMini == InitMini /\ [][NextMini]_vars

(***************************************************************************)
(* A day with its mini-games on the frame loop: every mini-game startDay   *)
(* starts runs its countdown on the frames the browser delivers            *)
(***************************************************************************)
\* the frames of a run, and the days of a behaviour
LiveTime == 2
MaxLiveDays == 1

\* game.start(startContext) of playMiniGame, for the mini-game startDay has
\* just put in run
LiveStart ==
  \E goal \in (IF run'.game.key = "food" THEN {Len(run'.participants)}
                ELSE Goals(run'.game.key)) :
    mini' = start(mini, run'.game.key, LiveTime, goal)

\* what updateFn(dt) can make of the mini-game
Updated(m, dt) ==
  IF m.key = "catch" THEN {catchUpdate(m, dt, escaped) : escaped \in BOOLEAN}
  ELSE IF m.key = "ceilidh"
    THEN {ceilidhUpdate(m, dt, faded, beat) : faded \in BOOLEAN, beat \in BOOLEAN}
  ELSE {timedUpdate(m, dt)}

\* startDay, the mini-game it starts included
LiveStartDay ==
  \/ startDayReturn
  \/ /\ daysRun < MaxLiveDays
     /\ startDayToAwait
     /\ LiveStart

\* loop.ts step for a frame that comes dt after the one before: when the
\* update finishes the mini-game, its onComplete resolves the promise
Frame(dt) ==
  /\ pc \in {"idle", "awaiting"}
  /\ mini.pending > 0
  /\ \E own \in BOOLEAN :
       /\ own => mini.tracked
       /\ ~own => mini.pending > (IF mini.tracked THEN 1 ELSE 0)
       /\ \E m \in {fired(mini, own)} :
            IF ~m.loop
              THEN /\ mini' = Ignored(m)
                   /\ UNCHANGED Others
              ELSE \E updated \in Updated(m, dt) :
                     /\ mini' = stepAgain(updated)
                     /\ IF updated.completions > m.completions
                          THEN resolve(Plays(run.game))
                          ELSE UNCHANGED Others

LiveFrame == \E dt \in 0..1 : Frame(dt)

\* the pointer event that cleans the last patch of a brush run or feeds the
\* last cow of a food run
LivePlayer ==
  /\ pc = "awaiting"
  /\ mini.key \in {"brush", "food"}
  /\ mini' = finish(mini)
  /\ resolve(Plays(run.game))

\* the continuation of startDay after an await that is not the last, the
\* mini-game it starts included
LiveResumeNext == resumeLoop /\ LiveStart

NextLive ==
  \/ LiveStartDay
  \/ LiveFrame
  \/ LivePlayer
  \/ LiveResumeNext
  \/ ResumeCommit

\* startDay leaves its await: the step LiveResumeNext or ResumeCommit takes
Continue == pc = "resolved" /\ pc' \in {"idle", "awaiting"}

\* the browser keeps delivering frames, each later than the one before, and
\* runs the continuation of a resolved promise
SpecLive ==
  /\ Init
  /\ [][NextLive]_vars
  /\ WF_vars(Frame(1))
  /\ WF_pc(Continue)

(***************************************************************************)
(* The style room alone: toggles, sets and randomisations of the           *)
(* accessories of a herd, and accessory grants of a day's adjustments      *)
(***************************************************************************)
\* accessories of the library, in the order a save has unlocked them
Wardrobe == <<"Pastel Bow", "Bell Charm", "Sun Hat", "Fern Garland", "Starry Bandana">>

\* lists handed to setCowAccessories: empty, longer than the limit, with a
\* repeated item, with an item that is not unlocked and with one that is no
\* accessory
StyleLists ==
  { <<>>,
    <<"Pastel Bow", "Bell Charm", "Sun Hat", "Fern Garland">>,
    <<"Sun Hat", "Sun Hat", "Bell Charm", "Pastel Bow", "Fern Garland">>,
    <<"Starry Bandana", "Fern Garland">>,
    <<"Tartan Picnic Rug", "Bell Charm">> }

InitStyle ==
  /\ \E owned \in {0, 2, 4} :
       unlocks = [NewUnlocks EXCEPT !.accessories = SubSeq(Wardrobe, 1, owned)]
  /\ cows = <<Cow(1, "Vain"), Cow(2, "Social")>>
  /\ family = NoFamily
  /\ seed = 1234567
  /\ day = 1
  /\ stats = NewStats
  /\ achievements = {}
  /\ season = NewSeason
  /\ preparedPlan = <<>>
  /\ running = FALSE
  /\ pc = "idle"
  /\ run = IdleRun
  /\ outcome = NoOutcome
  /\ lastResults = <<>>
  /\ trace = <<>>
  /\ deltaLog = <<>>
  /\ dayStart = [day |-> 0, queue |-> <<>>, cows |-> <<>>, unlocks |-> NewUnlocks, stats |-> NewStats,
                 season |-> NewSeason, achievements |-> {}, family |-> NoFamily]
  /\ lastPreview = <<>>
  /\ daysRun = 0
  /\ resets = 0
  /\ mini = NoMini
  /\ storage = NoStorage
  /\ turnedAway = 0

\* the saveNow at the end of setCowAccessories when the outfit changed
StyleSaved(changed) ==
  storage' = IF changed
               THEN [storage EXCEPT
                       !.data = <<Snapshot(day, cows', unlocks, stats, achievements, season)>>]
               ELSE storage

StyleRest ==
  <<day, unlocks, stats, achievements, season, running, pc, run, outcome,
    lastResults, deltaLog, dayStart, daysRun, resets, family, mini, turnedAway>>

\* refreshFarm's getPreviewPlan after a handler left the herd at herd and the
\* generator at s
Refreshed(herd, s) ==
  \E planned \in {ensurePlan(preparedPlan, season, day, herd, s)} :
    /\ preparedPlan' = <<planned.val>>
    /\ seed' = planned.seed
    /\ lastPreview' = <<PlanCall(day, herd, planned.val, s, planned.seed)>>

\* the style room's onToggle: State.toggleCowAccessory, then refreshFarm
ToggleAccessory ==
  /\ \E i \in DOMAIN cows :
     \E accessory \in Range(Wardrobe) \cup {"Tartan Picnic Rug"} :
     \E toggled \in {toggleCowAccessory(cows, unlocks.accessories, cows[i].id, accessory)} :
       /\ cows' = toggled.cows
       /\ StyleSaved(toggled.changed)
       /\ Refreshed(toggled.cows, seed)
  /\ UNCHANGED trace
  /\ UNCHANGED StyleRest

\* the style room's onClear, with the empty list and with other lists:
\* State.setCowAccessories, then refreshFarm
SetAccessories ==
  /\ \E i \in DOMAIN cows :
     \E list \in StyleLists :
     \E set \in {setCowAccessories(cows, unlocks.accessories, cows[i].id, list)} :
       /\ cows' = set.cows
       /\ StyleSaved(set.changed)
       /\ Refreshed(set.cows, seed)
  /\ UNCHANGED trace
  /\ UNCHANGED StyleRest

\* the style room's onRandomise: State.randomiseAccessories, then refreshFarm
RandomiseAccessories ==
  /\ Len(trace) < MaxRandomise
  /\ \E i \in DOMAIN cows :
     \E drawn \in {randomiseAccessories(cows, unlocks.accessories, cows[i].id, seed)} :
       /\ cows' = drawn.cows
       /\ StyleSaved(drawn.changed)
       /\ Refreshed(drawn.cows, drawn.seed)
       /\ trace' = Append(trace, <<"randomise", cows[i].id>>)
  /\ UNCHANGED StyleRest

\* State.applyCowAdjustments with an adjustment that grants an accessory,
\* and the saveNow that ends the startDay which called it
GrantAccessory ==
  /\ \E i \in DOMAIN cows :
     \E accessory \in Range(Wardrobe) \cup {"Tartan Picnic Rug"} :
       cows' = grantAccessory(cows, unlocks.accessories, cows[i].id, accessory)
  /\ StyleSaved(TRUE)
  /\ UNCHANGED <<seed, trace, preparedPlan, lastPreview>>
  /\ UNCHANGED StyleRest

NextStyle ==
  \/ ToggleAccessory
  \/ SetAccessories
  \/ RandomiseAccessories
  \/ GrantAccessory

SpecStyle == InitStyle /\ [][NextStyle]_vars

(***************************************************************************)
(* Properties                                                              *)
(***************************************************************************)
\* whether the latest call of ensurePlan follows, with no day committed in
\* between, a call for the same day and the same id:personality pairs
SameKeyAsPrior ==
  /\ lastPreview # <<>>
  /\ lastPreview[1].prior # <<>>
  /\ lastPreview[1].prior[1].day = lastPreview[1].day
  /\ lastPreview[1].prior[1].pairs = lastPreview[1].pairs

\* C1: plan memoization. When ensurePlan is called twice in a row for the same
\* day number and the same set of cow id:personality pairs, the second call
\* returns the plan of the first (same queue order, same event assignment) and
\* leaves the seed of the shared generator as it found it.
C1_PlanMemoized ==
  SameKeyAsPrior =>
    /\ lastPreview[1].plan.queue = lastPreview[1].prior[1].plan.queue
    /\ lastPreview[1].plan.eventPlan = lastPreview[1].prior[1].plan.eventPlan
    /\ lastPreview[1].plan = lastPreview[1].prior[1].plan
    /\ lastPreview[1].seedAfter = lastPreview[1].seedBefore

\* a second preview of an unchanged save has just returned
C1_Witness == SameKeyAsPrior /\ pc = "idle" /\ preparedPlan # <<>>

\* C2: preview/run consistency. When the day was previewed and startDay is
\* then called for the same day number and the same id:personality pairs, the
\* run uses the previewed queue and the previewed event assignment, and the
\* mini-games it starts are the previewed queue's, in the previewed order.
C2_RunsPreviewedPlan ==
  (running /\ SameKeyAsPrior) =>
    /\ run.queue = lastPreview[1].prior[1].plan.queue
    /\ run.eventPlan = lastPreview[1].prior[1].plan.eventPlan
    /\ run.game.key = lastPreview[1].prior[1].plan.queue[run.i + 1]
    /\ \A k \in 1..(run.i + 1) :
         trace[2 * k - 1] = <<"start", lastPreview[1].prior[1].plan.queue[k]>>

\* the last mini-game of a previewed day has finished
C2_Witness ==
  /\ running /\ SameKeyAsPrior
  /\ pc = "resolved"
  /\ run.i + 1 = Len(run.queue)
  /\ Len(trace) = 2 * Len(lastPreview[1].prior[1].plan.queue)

\* C3: the queue of every plan is a permutation of the four mini-game kinds:
\* four entries, each of catch, food, brush and ceilidh exactly once, whatever
\* the state of the generator was when the plan was built.
C3_QueueIsPermutation ==
  preparedPlan # <<>> =>
    /\ Len(preparedPlan[1].queue) = 4
    /\ \A kind \in {"catch", "food", "brush", "ceilidh"} :
         Cardinality({i \in DOMAIN preparedPlan[1].queue :
                        preparedPlan[1].queue[i] = kind}) = 1

\* a plan whose queue the shuffle reordered
C3_Witness ==
  /\ preparedPlan # <<>>
  /\ preparedPlan[1].queue # MiniGameKeys
  /\ preparedPlan[1].queue[1] = "ceilidh"

HasCow(personality) == \E i \in DOMAIN cows : cows[i].personality = personality

\* C4: event selection priority. The plan of a herd gives catch the Sleepy
\* rule if a cow is Sleepy, else the Social rule if a cow is Social, else no
\* event; food the Greedy rule, else Social, else none; brush the Vain rule,
\* else Social, else none; ceilidh the Social rule or none.
C4_EventPriority ==
  preparedPlan # <<>> =>
    LET events == preparedPlan[1].eventPlan.events
        Rule(thematic) ==
          IF HasCow(thematic) THEN thematic ELSE IF HasCow("Social") THEN "Social" ELSE ""
    IN  /\ events["catch"].personality = Rule("Sleepy")
        /\ events["food"].personality = Rule("Greedy")
        /\ events["brush"].personality = Rule("Vain")
        /\ events["ceilidh"].personality = Rule("Social")
        /\ \A kind \in Kinds :
             /\ (events[kind].personality = "") <=> (events[kind] = NoEvent)
             /\ events[kind].label = ConfigLabel(kind, events[kind].personality)

\* a herd with a Greedy and a Social cow has been planned: food is Greedy's
C4_Witness ==
  /\ preparedPlan # <<>>
  /\ HasCow("Greedy") /\ HasCow("Social")
  /\ preparedPlan[1].eventPlan.events["food"].label = "Greedy Graze"

\* the festival whose week holds the day, else the first whose festival day
\* is still to come, as a position in the calendar; 0 for none
HighlightOfDay ==
  LET first == season.startDay
      today == IF day < 1 THEN 1 ELSE day
      inWeek == {i \in DOMAIN Calendar :
                   /\ first + Calendar[i].startOffset <= today
                   /\ today <= first + Calendar[i].festivalOffset}
      coming == {i \in DOMAIN Calendar : first + Calendar[i].festivalOffset >= today}
      Least(S) == CHOOSE i \in S : \A j \in S : i <= j
  IN  IF inWeek # {} THEN Least(inWeek)
      ELSE IF coming # {} THEN Least(coming) ELSE 0

\* C5: festival override merge. For every kind that has a chosen event and for
\* which the active festival (the upcoming one when none is active) supplies
\* overrides, the planned modifier bag is the event's own bag with every
\* festival key taking the festival's value and every other key unchanged.
C5_FestivalMerge ==
  preparedPlan # <<>> =>
    \A kind \in Kinds :
      LET event == preparedPlan[1].eventPlan.events[kind]
          own == ConfigModifiers(kind, event.personality)
      IN  (event # NoEvent /\ HighlightOfDay # 0
             /\ kind \in DOMAIN Calendar[HighlightOfDay].modifiers) =>
            LET festival == Calendar[HighlightOfDay].modifiers[kind]
            IN  /\ DOMAIN event.modifiers = (DOMAIN own) \cup (DOMAIN festival)
                /\ \A key \in DOMAIN event.modifiers :
                     event.modifiers[key] =
                       IF key \in DOMAIN festival THEN festival[key] ELSE own[key]

\* before the season starts the upcoming festival overrides the Vain brush
\* rule's patchBonus and leaves its timeModifier
C5_Witness ==
  /\ preparedPlan # <<>>
  /\ day < season.startDay
  /\ preparedPlan[1].eventPlan.events["brush"].personality = "Vain"
  /\ preparedPlan[1].eventPlan.events["brush"].modifiers = [timeModifier |-> 1, patchBonus |-> 1]

\* the mini-games active after the first n start/stop events
ActiveAfter(n) ==
  Cardinality({k \in 1..n : trace[k][1] = "start"})
    - Cardinality({k \in 1..n : trace[k][1] = "stop"})

\* C6: strictly sequential run. The start/stop events of one startDay are
\* start(q1), stop(q1), start(q2), stop(q2), ... in the order of the day's
\* queue, so every queued kind is started at most once and exactly once by
\* the end of the day, a game is stopped before the next starts, never are two
\* mini-games active, and the result list of a finished day has one entry per
\* queued kind in queue order.
C6_SequentialRun ==
  /\ Len(trace) <= 2 * Len(dayStart.queue)
  /\ \A k \in DOMAIN trace :
       trace[k] = <<IF k % 2 = 1 THEN "start" ELSE "stop", dayStart.queue[(k + 1) \div 2]>>
  /\ \A n \in 0..Len(trace) : ActiveAfter(n) \in {0, 1}
  /\ (pc = "awaiting") <=> (ActiveAfter(Len(trace)) = 1)
  /\ (~running /\ lastResults # <<>>) =>
       /\ Len(trace) = 2 * Len(dayStart.queue)
       /\ [i \in DOMAIN lastResults[1].results |-> lastResults[1].results[i].key]
            = dayStart.queue

\* a day with a reordered queue has been run to its end
C6_Witness ==
  /\ ~running /\ lastResults # <<>>
  /\ Len(trace) = 8
  /\ dayStart.queue # MiniGameKeys
  /\ Len(lastResults[1].results) = 4

\* the delta of one stat of one cow in a record of adjustments, 0 when absent
DeltaIn(adjustments, id, key) ==
  IF id \in DOMAIN adjustments /\ key \in DOMAIN adjustments[id]
    THEN adjustments[id][key] ELSE 0

\* the delta the k-th mini-game of the day gave, post-processor included
DeltaOfGame(k, id, key) ==
  IF k <= Len(deltaLog) THEN DeltaIn(deltaLog[k], id, key) ELSE 0

\* the arithmetic sum of the deltas of the (at most four) games of the day
SumOfDay(id, key) ==
  DeltaOfGame(1, id, key) + DeltaOfGame(2, id, key)
    + DeltaOfGame(3, id, key) + DeltaOfGame(4, id, key)

Bounded(v) == IF v < 0 THEN 0 ELSE IF v > 100 THEN 100 ELSE v

\* what clamping after every mini-game would have left
ClampedEachGame(old, id, key) ==
  Bounded(Bounded(Bounded(Bounded(old + DeltaOfGame(1, id, key))
    + DeltaOfGame(2, id, key)) + DeltaOfGame(3, id, key)) + DeltaOfGame(4, id, key))

\* the last day has just been committed and the herd is still that day's
JustCommitted ==
  /\ ~running /\ lastResults # <<>>
  /\ day = dayStart.day + 1
  /\ lastResults[1].day = dayStart.day

\* C7: sum then clamp once. While a day runs the accumulated delta of every
\* stat of every cow is the arithmetic sum of the deltas of the games played
\* so far (event post-processors included); the day summary carries that sum,
\* and the committed stat is the old stat plus the sum, clamped once into
\* 0..100.
C7_SumThenClampOnce ==
  /\ running =>
       \A i \in DOMAIN cows : \A key \in Range(StatKeys) :
         DeltaIn(run.adjustments, cows[i].id, key) = SumOfDay(cows[i].id, key)
  /\ JustCommitted =>
       /\ Len(cows) = Len(dayStart.cows)
       /\ \A i \in DOMAIN cows : \A key \in Range(StatKeys) :
            /\ cows[i].id = dayStart.cows[i].id
            /\ DeltaIn(lastResults[1].adjustments, cows[i].id, key)
                 = SumOfDay(cows[i].id, key)
            /\ cows[i][key] = Bounded(dayStart.cows[i][key] + SumOfDay(cows[i].id, key))

\* a committed day in which clamping after each game would have given a
\* different stat
C7_Witness ==
  /\ JustCommitted
  /\ \E i \in DOMAIN cows : \E key \in Range(StatKeys) :
       /\ Cardinality({k \in DOMAIN deltaLog : DeltaIn(deltaLog[k], cows[i].id, key) # 0}) > 1
       /\ cows[i][key] # ClampedEachGame(dayStart.cows[i][key], cows[i].id, key)

\* C8: every cow's happiness, hunger, cleanliness and chonk is in 0..100 in
\* every state reached from a herd whose stats are in 0..100, whatever the
\* outcomes of the mini-games of the days run; a sum beyond a bound leaves the
\* stat at the bound.
C8_StatsBounded ==
  \A i \in DOMAIN cows :
    /\ cows[i].happiness \in 0..100
    /\ cows[i].hunger \in 0..100
    /\ cows[i].cleanliness \in 0..100
    /\ cows[i].chonk \in 0..100

\* a committed day whose deltas would have taken one stat above 100 and
\* another below 0
C8_Witness ==
  /\ JustCommitted
  /\ \E i \in DOMAIN cows :
       /\ dayStart.cows[i].happiness + SumOfDay(cows[i].id, "happiness") > 100
       /\ cows[i].happiness = 100
  /\ \E i \in DOMAIN cows :
       /\ dayStart.cows[i].hunger + SumOfDay(cows[i].id, "hunger") < 0
       /\ cows[i].hunger = 0

CatalogTypes == {"foods", "accessories", "decor"}

\* the items the day added to a catalog, given that the old one is a prefix
AddedToday(type) ==
  {unlocks[type][k] : k \in (Len(dayStart.unlocks[type]) + 1)..Len(unlocks[type])}

\* the number of items the three catalogs have grown by since the day began
GrownToday ==
  (Len(unlocks.foods) + Len(unlocks.accessories) + Len(unlocks.decor))
    - (Len(dayStart.unlocks.foods) + Len(dayStart.unlocks.accessories)
         + Len(dayStart.unlocks.decor))

\* C9: at most one reward per day. While a day runs the catalogs are as they
\* were at its start; once it is committed the three catalogs together have
\* grown by at most one item, every catalog keeps its old items, and the
\* summary carries a reward only if exactly one item was newly added, which is
\* the rewarded one.
C9_AtMostOneReward ==
  /\ running => unlocks = dayStart.unlocks
  /\ JustCommitted =>
       /\ GrownToday \in {0, 1}
       /\ \A type \in CatalogTypes :
            /\ Len(unlocks[type]) >= Len(dayStart.unlocks[type])
            /\ SubSeq(unlocks[type], 1, Len(dayStart.unlocks[type])) = dayStart.unlocks[type]
       /\ lastResults[1].reward # NoChoice =>
            /\ GrownToday = 1
            /\ AddedToday(lastResults[1].reward.type) = {lastResults[1].reward.item}
            /\ lastResults[1].reward.item
                 \notin Range(dayStart.unlocks[lastResults[1].reward.type])

\* a committed day that granted a reward
C9_Witness ==
  /\ JustCommitted
  /\ lastResults[1].reward # NoChoice
  /\ GrownToday = 1

\* the reward chosen on the committed day was in its catalog already
ChosenWasUnlocked ==
  /\ JustCommitted
  /\ lastResults[1].chosen # NoChoice
  /\ lastResults[1].chosen.item \in Range(dayStart.unlocks[lastResults[1].chosen.type])

\* C10: idempotent granting. addUnlock of an item that is in its catalog
\* returns false and leaves the catalogs as they are; no catalog ever holds an
\* item twice; a day whose chosen item was unlocked already reports no reward,
\* leaves the catalogs alone and does not update lastRewardType.
C10_IdempotentGrant ==
  /\ \A type \in CatalogTypes :
       /\ Cardinality(Range(unlocks[type])) = Len(unlocks[type])
       /\ \A item \in Range(unlocks[type]) :
            addUnlock(unlocks, type, item) = [added |-> FALSE, unlocks |-> unlocks]
  /\ ChosenWasUnlocked =>
       /\ lastResults[1].reward = NoChoice
       /\ unlocks = dayStart.unlocks
       /\ stats.lastRewardType = dayStart.stats.lastRewardType

\* a perfect festival day whose festival reward the save owned already
C10_Witness ==
  /\ ChosenWasUnlocked
  /\ lastResults[1].perfectDay
  /\ lastResults[1].festivalResult # <<>>
  /\ ~lastResults[1].festivalResult[1].rewardUnlocked

\* the festival whose week holds the day the last run was started on, as a
\* position in the calendar; 0 for none
FestivalOfRunDay ==
  LET first == dayStart.season.startDay
      inWeek == {i \in DOMAIN Calendar :
                   /\ first + Calendar[i].startOffset <= dayStart.day
                   /\ dayStart.day <= first + Calendar[i].festivalOffset}
  IN  IF inWeek = {} THEN 0 ELSE CHOOSE i \in inWeek : \A j \in inWeek : i <= j

\* the items of the reward themes of one category that were locked when the
\* last run was started
LockedAtStart(type) ==
  {rewardThemes[t].items[k].item : t \in DOMAIN rewardThemes, k \in 1..3}
    \cap {item \in UNION {{rewardThemes[t].items[k].item : k \in
                             {n \in 1..3 : rewardThemes[t].items[n].type = type}} :
                          t \in DOMAIN rewardThemes} :
            item \notin Range(dayStart.unlocks[type])}

\* the categories in the order the rotation tries them on the last run
RotationAtStart ==
  LET last == dayStart.stats.lastRewardType
  IN  IF last = "accessories" THEN <<"decor", "foods", "accessories">>
      ELSE IF last = "decor" THEN <<"accessories", "foods", "decor">>
      ELSE <<"accessories", "decor", "foods">>

\* the festival rule applies to the last run: a perfect day in the week of a
\* festival with a guaranteed reward whose item was not unlocked
FestivalRuleApplies ==
  /\ lastResults[1].perfectDay
  /\ FestivalOfRunDay # 0
  /\ Calendar[FestivalOfRunDay].reward # NoReward
  /\ Calendar[FestivalOfRunDay].reward.item
       \notin Range(dayStart.unlocks[Calendar[FestivalOfRunDay].reward.type])

\* C11: reward decision order, first match wins. (1) On a perfect day with an
\* active festival carrying a guaranteed reward whose item is not yet unlocked
\* the day's reward is that item; (2) otherwise, on a post-day streak that is
\* a positive multiple of three with a locked themed decor item, a decor item;
\* (3) otherwise, on a perfect day with a locked themed accessory, an
\* accessory; (4) otherwise what the category rotation gives.
C11_DecisionOrder ==
  JustCommitted =>
    LET reward == lastResults[1].reward
        streak == lastResults[1].perfectStreak
        Granted(type) == reward.type = type /\ reward.item \in LockedAtStart(type)
        open == {i \in 1..3 : LockedAtStart(RotationAtStart[i]) # {}}
    IN  IF FestivalRuleApplies
          THEN /\ reward.type = Calendar[FestivalOfRunDay].reward.type
               /\ reward.item = Calendar[FestivalOfRunDay].reward.item
        ELSE IF streak > 0 /\ streak % 3 = 0 /\ LockedAtStart("decor") # {}
          THEN Granted("decor")
        ELSE IF lastResults[1].perfectDay /\ LockedAtStart("accessories") # {}
          THEN Granted("accessories")
        ELSE IF open = {} THEN reward = NoChoice
        ELSE Granted(RotationAtStart[CHOOSE i \in open : \A j \in open : i <= j])

\* C12: a festival id enters season.completedFestivals only on a day on which
\* the festival's guaranteed reward item was newly unlocked; a day on which
\* the item could not be added leaves completedFestivals as it was.
C12_CompletedOnlyWhenGranted ==
  JustCommitted =>
    /\ \A id \in Range(season.completedFestivals) \ Range(dayStart.season.completedFestivals) :
         \E i \in DOMAIN Calendar :
           /\ Calendar[i].id = id
           /\ Calendar[i].reward # NoReward
           /\ Calendar[i].reward.item \in AddedToday(Calendar[i].reward.type)
    /\ GrownToday = 0 => season.completedFestivals = dayStart.season.completedFestivals

\* C13: the day ends with no reward only if no themed item was locked when
\* the reward was resolved: whenever some item of some reward theme is still
\* locked, the committed day has unlocked an item.
C13_RewardWhileLocked ==
  JustCommitted =>
    ((\E type \in CatalogTypes : LockedAtStart(type) # {}) =>
       /\ lastResults[1].reward # NoChoice
       /\ GrownToday = 1)

\* the items of theme t that were locked when the last run was started
LockedInTheme(t) ==
  {k \in 1..3 :
     rewardThemes[t].items[k].item \notin Range(dayStart.unlocks[rewardThemes[t].items[k].type])}

\* the themes that had a locked item of a category when the last run was started
ThemesOffering(type) ==
  {t \in DOMAIN rewardThemes :
     \E k \in LockedInTheme(t) : rewardThemes[t].items[k].type = type}

\* C14: theme preference. Whenever the day's reward is a themed item of some
\* category, it belongs to a theme whose number of still-locked items is
\* maximal among the themes that have a locked item of that category.
C14_ThemePreference ==
  (JustCommitted /\ lastResults[1].reward # NoChoice
     /\ lastResults[1].reward.festivalId = "") =>
    \E t \in ThemesOffering(lastResults[1].reward.type) :
      /\ \E k \in LockedInTheme(t) :
           rewardThemes[t].items[k].item = lastResults[1].reward.item
      /\ \A u \in ThemesOffering(lastResults[1].reward.type) :
           Cardinality(LockedInTheme(u)) <= Cardinality(LockedInTheme(t))

\* the last run's reward came from the category rotation: no festival reward
\* was chosen, the post-day streak was no multiple of three or no themed decor
\* was locked, and the day was not perfect or no themed accessory was locked
ByRotation ==
  /\ JustCommitted
  /\ lastResults[1].chosen # NoChoice
  /\ lastResults[1].chosen.festivalId = ""
  /\ ~(lastResults[1].perfectStreak > 0 /\ lastResults[1].perfectStreak % 3 = 0
         /\ LockedAtStart("decor") # {})
  /\ ~(lastResults[1].perfectDay /\ LockedAtStart("accessories") # {})

\* C15: no back-to-back category repeat in the fallback. A reward chosen by
\* the category rotation has the category of the previously granted reward
\* (stats.lastRewardType before the day) only if no other category had a
\* locked themed item; so after a day that was not perfect the reward repeats
\* the previous category only in that case, and the category granted becomes
\* the new lastRewardType.
C15_NoRepeatInRotation ==
  /\ ByRotation =>
       /\ lastResults[1].reward = lastResults[1].chosen
       /\ stats.lastRewardType = lastResults[1].reward.type
       /\ lastResults[1].reward.type = dayStart.stats.lastRewardType =>
            \A type \in CatalogTypes \ {dayStart.stats.lastRewardType} :
              LockedAtStart(type) = {}
  /\ (JustCommitted /\ ~lastResults[1].perfectDay /\ lastResults[1].reward # NoChoice) =>
       ByRotation

\* a second day in a row rewarded by the rotation, in another category than
\* the first
C15_Witness ==
  /\ ByRotation
  /\ ~lastResults[1].perfectDay
  /\ dayStart.stats.lastRewardType \in CatalogTypes
  /\ lastResults[1].reward.type # dayStart.stats.lastRewardType

\* C16: perfectDay is true exactly when every entry of the day's result list
\* reports success, and once the day is committed the stored perfect-day
\* streak is the streak before the day plus one if the day was perfect and
\* zero otherwise.
C16_PerfectDayAndStreak ==
  JustCommitted =>
    /\ lastResults[1].perfectDay
         <=> (\A i \in DOMAIN lastResults[1].results : lastResults[1].results[i].success)
    /\ stats.perfectDayStreak =
         IF \A i \in DOMAIN lastResults[1].results : lastResults[1].results[i].success
           THEN dayStart.stats.perfectDayStreak + 1 ELSE 0
    /\ lastResults[1].perfectStreak = stats.perfectDayStreak
    /\ lastResults[1].previousPerfectStreak = dayStart.stats.perfectDayStreak

\* a perfect day has extended a streak, and the day before it was perfect too
C16_Witness ==
  /\ JustCommitted
  /\ lastResults[1].perfectDay
  /\ dayStart.stats.perfectDayStreak = 3
  /\ stats.perfectDayStreak = 4

\* C17: across completed days the stored best perfect-day streak never
\* decreases and is never below the current perfect-day streak.
C17_BestStreakMonotone ==
  /\ stats.bestPerfectDayStreak >= stats.perfectDayStreak
  /\ JustCommitted => stats.bestPerfectDayStreak >= dayStart.stats.bestPerfectDayStreak

\* a day has raised the best streak and the next has broken the streak
C17_Witness ==
  /\ JustCommitted
  /\ dayStart.stats.perfectDayStreak = 1
  /\ dayStart.stats.bestPerfectDayStreak = 1
  /\ stats.perfectDayStreak = 0
  /\ stats.bestPerfectDayStreak = 1

\* C18: with the family challenge enabled, n >= 1 participants and stored
\* rotation index r, the caretaker of the i-th queued mini-game (i from 0) is
\* participants[(r + i) mod n], the day records one assignment per queued
\* mini-game, the index handed to the ledger is (r + queue length) mod n, and
\* every index startDay uses lies in 0..n-1.
C18_FamilyRotation ==
  /\ (running /\ run.familyActive) =>
       run.familyRotationIndex \in 0..(Len(run.familyParticipants) - 1)
  /\ (JustCommitted /\ dayStart.family.enabled /\ Len(dayStart.family.participants) >= 1) =>
       LET participants == dayStart.family.participants
           n == Len(participants)
           r == dayStart.family.rotationIndex
           queue == dayStart.queue
       IN  /\ lastResults[1].familyCall # <<>>
           /\ Len(lastResults[1].familyCall[1].assignments) = Len(queue)
           /\ \A i \in 0..(Len(queue) - 1) :
                /\ lastResults[1].familyCall[1].assignments[i + 1].participantId
                     = participants[((r + i) % n) + 1]
                /\ lastResults[1].familyCall[1].assignments[i + 1].miniGame = queue[i + 1]
           /\ lastResults[1].familyCall[1].nextRotationIndex = (r + Len(queue)) % n
           /\ lastResults[1].familyCall[1].nextRotationIndex \in 0..(n - 1)

\* a committed day of the three-participant family whose stored index 4 wraps
\* to 1 and whose rotation wraps again within the day
C18_Witness ==
  /\ JustCommitted
  /\ dayStart.family = Trio
  /\ lastResults[1].familyCall # <<>>
  /\ Len(lastResults[1].familyCall[1].assignments) >= 3
  /\ lastResults[1].familyCall[1].assignments[1].participantId = "blair"
  /\ lastResults[1].familyCall[1].assignments[3].participantId = "ailsa"

\* the day score of participant id as the ledger counts it: one point for
\* each success and one more for each perfect among their assignments
Points(assignments, id) ==
  Cardinality({k \in DOMAIN assignments :
                 assignments[k].participantId = id /\ assignments[k].success})
    + Cardinality({k \in DOMAIN assignments :
                     assignments[k].participantId = id /\ assignments[k].perfect})

\* the positions of the top scorers of the day just committed
BestOfDay ==
  {i \in DOMAIN dayStart.family.participants :
     \A j \in DOMAIN dayStart.family.participants :
       Points(lastResults[1].familyCall[1].assignments, dayStart.family.participants[j])
         <= Points(lastResults[1].familyCall[1].assignments, dayStart.family.participants[i])}

\* the positions of the MVP recorded before the day just committed
PriorMvp ==
  {i \in DOMAIN dayStart.family.participants :
     dayStart.family.participants[i] = dayStart.family.lastMvp}

\* the position k steps after position p in rotation order
StepsAfter(p, k) == ((p - 1 + k) % Len(dayStart.family.participants)) + 1

\* C19: the elected MVP is one of the participants with the day's highest
\* score (a unique top scorer is therefore the MVP); on a tie it is the first
\* top scorer met walking the rotation order from the participant after the
\* previously recorded MVP, wrapping; with no previous MVP it is the top
\* scorer the persisted pivot selects, and the pivot is then one larger.
C19_MvpElection ==
  (JustCommitted /\ lastResults[1].familyChallenge # <<>>) =>
    /\ \E i \in BestOfDay :
         dayStart.family.participants[i] = lastResults[1].familyChallenge[1].mvp
    /\ family.lastMvp = lastResults[1].familyChallenge[1].mvp
    /\ (Cardinality(BestOfDay) > 1 /\ PriorMvp # {}) =>
         \E p \in PriorMvp :
         \E k \in 1..Len(dayStart.family.participants) :
           /\ StepsAfter(p, k) \in BestOfDay
           /\ dayStart.family.participants[StepsAfter(p, k)]
                = lastResults[1].familyChallenge[1].mvp
           /\ \A h \in 1..(k - 1) : StepsAfter(p, h) \notin BestOfDay
    /\ (Cardinality(BestOfDay) > 1 /\ PriorMvp = {}) =>
         /\ \E m \in BestOfDay :
              /\ dayStart.family.participants[m] = lastResults[1].familyChallenge[1].mvp
              /\ Cardinality({i \in BestOfDay : i < m})
                   = dayStart.family.mvpPivot % Cardinality(BestOfDay)
         /\ family.mvpPivot = dayStart.family.mvpPivot + 1

\* a tie of the first two participants on a day whose previous MVP is the
\* last of three: the walk wraps and elects the first
C19_Witness ==
  /\ JustCommitted
  /\ lastResults[1].familyChallenge # <<>>
  /\ dayStart.family.lastMvp = "callum"
  /\ BestOfDay = {1, 2}
  /\ lastResults[1].familyChallenge[1].mvp = "ailsa"

\* C20: in every run of each of the four mini-games (one start call) the
\* completion callback onComplete is invoked at most once, whatever the order
\* of frames, pointer and tap events and stop(), events after the finish or
\* after stop() included.
C20_SingleShotCompletion == mini.completions <= 1

\* a run that completed once, after which a call of finish was turned away
\* and a frame or event found the game no longer running
C20_Witness == mini.completions = 1 /\ mini.blocked /\ mini.late

\* C21: during startDay no write to storage happens between the start of the
\* first queued mini-game and the end of the processing of the last one: no
\* write of a day is made by the loop body.
C21_NoWriteInLoop ==
  \A k \in DOMAIN storage.writes : storage.writes[k].by # "loop"

\* C22: while a started mini-game has not signalled completion nothing of the
\* day moves: the orchestrator stays running and waiting for that mini-game,
\* no later mini-game is started and the herd, the unlocks, the stats (streak
\* included), the day counter and the storage stay as they are; the only
\* step out of the wait is the completion of the mini-game itself.
C22_NoCancellation ==
  [][pc = "awaiting" =>
       /\ pc' \in {"awaiting", "resolved"}
       /\ running /\ running'
       /\ run' = run
       /\ day' = day /\ cows' = cows /\ unlocks' = unlocks /\ stats' = stats
       /\ season' = season /\ achievements' = achievements /\ family' = family
       /\ lastResults' = lastResults /\ storage' = storage]_vars

\* the second mini-game of a day is awaited
C22_Witness ==
  /\ pc = "awaiting"
  /\ running
  /\ run.i = 1
  /\ trace = <<<<"start", run.queue[1]>>, <<"stop", run.queue[1]>>, <<"start", run.queue[2]>>>>

\* C23: after any sequence of toggleCowAccessory, setCowAccessories,
\* randomiseAccessories and accessory grants of applyCowAdjustments every cow
\* wears at most ACCESSORY_LIMIT (3) accessories, all distinct.
C23_AccessoryLimit ==
  \A i \in DOMAIN cows :
    /\ Len(cows[i].accessories) <= ACCESSORY_LIMIT
    /\ \A j, k \in DOMAIN cows[i].accessories :
         cows[i].accessories[j] = cows[i].accessories[k] => j = k

\* a cow wearing three accessories whose oldest was dropped for the newest,
\* next to a cow dressed by a randomisation
C23_Witness ==
  /\ cows[1].accessories = <<"Bell Charm", "Sun Hat", "Fern Garland">>
  /\ Len(cows[2].accessories) > 0
  /\ trace # <<>>

\* C24: for every mini-game of a day the participant list has exactly
\* min(3, herd size) cows, all distinct members of the herd; when the planned
\* event of the mini-game names a personality that a cow of the herd has, the
\* first participant has that personality; with an empty herd the list is
\* empty and the day still runs every queued mini-game to completion.
C24_ParticipantSelection ==
  /\ pc = "awaiting" =>
       /\ Len(run.participants) = Min(3, Len(cows))
       /\ \A j \in DOMAIN run.participants : run.participants[j] \in DOMAIN cows
       /\ \A j, k \in DOMAIN run.participants :
            run.participants[j] = run.participants[k] => j = k
       /\ (/\ run.eventPlan.events[run.queue[run.i + 1]].personality # ""
           /\ \E c \in DOMAIN cows :
                cows[c].personality = run.eventPlan.events[run.queue[run.i + 1]].personality)
            => cows[run.participants[1]].personality
                 = run.eventPlan.events[run.queue[run.i + 1]].personality
  /\ (JustCommitted /\ dayStart.cows = <<>>) =>
       /\ Len(lastResults[1].results) = Len(dayStart.queue)
       /\ \A k \in DOMAIN dayStart.queue : lastResults[1].results[k].key = dayStart.queue[k]

\* the last mini-game of a day of a herd of four is awaited with three
\* participants, the first of them not the first cow of the herd and of the
\* personality of the planned event
C24_Witness ==
  /\ pc = "awaiting"
  /\ Len(cows) = 4
  /\ run.i + 1 = Len(run.queue)
  /\ Len(run.participants) = 3
  /\ run.participants[1] # 1
  /\ run.eventPlan.events[run.queue[run.i + 1]].personality
       = cows[run.participants[1]].personality

\* a day of an empty herd was committed
C24_EmptyHerdDay == JustCommitted /\ dayStart.cows = <<>> /\ Len(dayStart.queue) = 4

\* C25: every snapshot written to storage is a consistent day boundary: a
\* snapshot that still carries the day counter of the day being played
\* carries neither that day's adjustments of the cows, nor its reward, nor
\* its update of the statistics and the streak.
C25_AtomicDayCommit ==
  \A k \in DOMAIN storage.writes :
    storage.writes[k].data.day = dayStart.day =>
      /\ storage.writes[k].data.cows = dayStart.cows
      /\ storage.writes[k].data.unlocks = dayStart.unlocks
      /\ storage.writes[k].data.stats = dayStart.stats

\* C26: at every moment at most one frame callback of the shared loop is
\* pending, whatever the order of startLoop, stopLoop and frames.
C26_SingleFrameChain == mini.pending <= 1

\* the loop runs for a second run of a mini-game with one frame callback pending
C26_Witness == mini.runs = 2 /\ mini.loop /\ mini.pending = 1 /\ mini.tracked

\* C27: at most one day is in progress at a time. A startDay call made
\* while a day is running leaves the save, the plan, the queue and the
\* active mini-game as they are; while a day runs no day is started and the
\* day counter stays; the step that ends a day sets running to false, clears
\* the cached plan and adds exactly one to the day the day was started on;
\* the step that starts a day runs the queue of a plan made for the save's
\* current day.
C27_OneDayAtATime ==
  [][ /\ (running /\ turnedAway' # turnedAway /\ running') =>
           UNCHANGED <<seed, day, cows, unlocks, stats, achievements, season, preparedPlan,
                       running, pc, run, outcome, lastResults, trace, deltaLog, dayStart,
                       family, mini, storage>>
      /\ (running /\ running') =>
           /\ daysRun' = daysRun
           /\ day' = day
           /\ dayStart' = dayStart
           /\ run'.queue = run.queue
           /\ Len(trace') >= Len(trace)
      /\ (running /\ ~running') =>
           /\ preparedPlan' = <<>>
           /\ day = dayStart.day
           /\ day' = day + 1
      /\ (~running /\ running') =>
           /\ preparedPlan' # <<>>
           /\ preparedPlan'[1].signature = planSignature(day, cows)
           /\ run'.queue = preparedPlan'[1].queue
           /\ dayStart'.day = day
    ]_vars

\* the second day of a behaviour, started on the day after the first, has
\* turned away a startDay call and awaits its second mini-game
C27_Witness ==
  /\ daysRun = 2
  /\ pc = "awaiting"
  /\ day = lastResults[1].day + 1
  /\ turnedAway = 1
  /\ run.i = 1

\* C28: a planned event is always in force when its mini-game runs. Whenever
\* a mini-game is started whose kind has an event in the day's plan, the
\* event resolved for it is that event, whatever participants the generator
\* picks; the mini-game is started with the event's modifier bag; and when
\* it completes, the adjustments merged into the day's sum are those the
\* event's post-processor made of the result.
C28_PlannedEventInForce ==
  [][ /\ (pc' = "awaiting" /\ run' # run) =>
           LET key == run'.queue[run'.i + 1]
               base == run'.eventPlan.events[key]
           IN  base # NoEvent =>
                 /\ run'.event = cloneEvent(base)
                 /\ run'.game.modifiers = run'.event.modifiers
                 /\ \A s \in 1..MaxPlanSeed :
                      eventForMini(key,
                                   pickParticipants(cows', Min(3, Len(cows')), base, s).val,
                                   run'.eventPlan, cows') # NoEvent
      /\ pc = "resolved" =>
           LET key == run.queue[run.i + 1]
               base == run.eventPlan.events[key]
           IN  base # NoEvent =>
                 deltaLog' = Append(deltaLog,
                                    applyOutcome(key, cloneEvent(base), outcome,
                                                 run.participants, cows).adjustments)
    ]_vars

\* in a herd of four with a single cow of the event's personality, a
\* mini-game with a planned event is awaited after another one, which had a
\* planned event too, was merged
C28_Witness ==
  /\ pc = "awaiting"
  /\ Len(cows) = 4
  /\ run.event # NoEvent
  /\ Cardinality({c \in DOMAIN cows : cows[c].personality = run.event.personality}) = 1
  /\ Len(deltaLog) = run.i
  /\ run.i > 0
  /\ run.eventPlan.events[run.queue[run.i]] # NoEvent

\* C29: festival overrides reach the mini-game whether or not a personality
\* event was chosen: whenever the active festival (the upcoming one when none
\* is active) supplies overrides for the kind of the mini-game that is being
\* played, the modifier bag the mini-game was started with holds every
\* override key with the festival's value.
C29_FestivalOverridesReachGame ==
  (pc = "awaiting" /\ HighlightOfDay # 0
     /\ run.game.key \in DOMAIN Calendar[HighlightOfDay].modifiers) =>
    \A key \in DOMAIN Calendar[HighlightOfDay].modifiers[run.game.key] :
      /\ key \in DOMAIN run.game.modifiers
      /\ run.game.modifiers[key] = Calendar[HighlightOfDay].modifiers[run.game.key][key]

\* C30: day termination. While frames keep coming, every started day
\* reaches its summary: running is false again, the summary is that of the
\* day the day was started on and the day counter is that day plus one,
\* whatever the player does and however the mini-games end.
C30_DayTermination == running ~> JustCommitted

\* a day was committed whose last mini-game ran out of time
C30_Witness ==
  /\ JustCommitted
  /\ mini.runs = Len(dayStart.queue)
  /\ mini.timeLeft <= 0
  /\ mini.completions = 1

=============================================================================
